---- MODULE Spec2Model ----
(***************************************************************************)
(* Model of the boxscore scorekeeper (src/src/App.tsx): the game reducer,  *)
(* the persistence codec and the share-image preparation, as one state     *)
(* machine.  A JavaScript string is a sequence of one-character strings,   *)
(* a parsed JSON value is a tagged record, a React state cell is a         *)
(* variable, and an event handler together with the effects that run       *)
(* after its commit is one action.                                         *)
(***************************************************************************)
EXTENDS Integers, Sequences, FiniteSets, TLC

VARIABLES
  phase, playerCount, setupScoringMode, gameScoringMode, setup, teams,
  selectedTeamId, selectedPlayerId, history, lastAction,
  shareStatus, preparedShareImage, isSharing, isPreparingShareImage,
  hasSharePrepareError, shareSelectionByPlayerId, isShareOptionsOpen,
  sharePrepareJobId, jobs, shareAttempt, stored, storageFails,
  lastCall, undoStack, editSnapshot, edits, opened

(***************************************************************************)
(* Bounds of the model.                                                    *)
(***************************************************************************)
MaxHistory == 2
MaxJobId == 3
MaxEdits == 1
MaxDeltas == 2
MaxSlot == 1

(***************************************************************************)
(* Strings.                                                                *)
(***************************************************************************)
EmptyStr == <<>>
S_TeamPrefix == <<"T", "e", "a", "m", " ">>
S_Sep == <<" ", "|", " ">>
S_GameStarted == <<"G", "a", "m", "e", " ", "s", "t", "a", "r", "t", "e", "d", ".">>
S_NamesUpdated == <<"N", "a", "m", "e", "s", " ", "u", "p", "d", "a", "t", "e", "d", ".">>
S_UndoPrefix == <<"U", "n", "d", "o", ":", " ">>
S_setup == <<"s", "e", "t", "u", "p">>
S_game == <<"g", "a", "m", "e">>
S_editNames == <<"e", "d", "i", "t", "N", "a", "m", "e", "s">>
S_twosAndThrees == <<"t", "w", "o", "s", "A", "n", "d", "T", "h", "r", "e", "e", "s">>
S_onesAndTwos == <<"o", "n", "e", "s", "A", "n", "d", "T", "w", "o", "s">>

S_Shared ==
  <<"S", "h", "a", "r", "e", "d", " ", "s", "u", "c", "c", "e", "s", "s",
    "f", "u", "l", "l", "y", ".">>

S_Downloaded ==
  <<"I", "m", "a", "g", "e", " ", "d", "o", "w", "n", "l", "o", "a", "d",
    "e", "d", ".", " ", "S", "h", "a", "r", "e", " ", "i", "t", " ", "f",
    "r", "o", "m", " ", "P", "h", "o", "t", "o", "s", "/", "F", "i", "l",
    "e", "s", ".">>

S_TapAgain ==
  <<"I", "m", "a", "g", "e", " ", "r", "e", "a", "d", "y", ".", " ", "T",
    "a", "p", " ", "S", "h", "a", "r", "e", " ", "B", "o", "x", " ", "S",
    "c", "o", "r", "e", " ", "a", "g", "a", "i", "n", ".">>

S_CouldNotShare ==
  <<"C", "o", "u", "l", "d", " ", "n", "o", "t", " ", "s", "h", "a", "r",
    "e", " ", "i", "m", "a", "g", "e", ".", " ", "T", "r", "y", " ", "a",
    "g", "a", "i", "n", ".">>

S_SelectOne ==
  <<"S", "e", "l", "e", "c", "t", " ", "a", "t", " ", "l", "e", "a", "s",
    "t", " ", "o", "n", "e", " ", "p", "l", "a", "y", "e", "r", " ", "t",
    "o", " ", "s", "h", "a", "r", "e", ".">>

Digit(n) ==
  CASE n = 0 -> "0" [] n = 1 -> "1" [] n = 2 -> "2" [] n = 3 -> "3"
    [] n = 4 -> "4" [] n = 5 -> "5" [] n = 6 -> "6" [] n = 7 -> "7"
    [] n = 8 -> "8" [] n = 9 -> "9"

Whitespace == {" "}

RECURSIVE TrimStart(_)
TrimStart(s) ==
  IF s # <<>> /\ Head(s) \in Whitespace THEN TrimStart(Tail(s)) ELSE s

RECURSIVE TrimEnd(_)
TrimEnd(s) ==
  IF s # <<>> /\ s[Len(s)] \in Whitespace
  THEN TrimEnd(SubSeq(s, 1, Len(s) - 1))
  ELSE s

Trim(s) == TrimEnd(TrimStart(s))

\* a || b on strings: the empty string is falsy
OrElse(s, fallback) == IF s = <<>> THEN fallback ELSE s

(***************************************************************************)
(* Stat model.                                                             *)
(***************************************************************************)
TEAM_IDS == <<"A", "B">>
TeamIdSet == {"A", "B"}

STAT_KEYS ==
  <<"lowPA", "lowPM", "highPA", "highPM", "ast", "stl", "blk", "reb", "tov", "tovf">>
StatKeySet == {STAT_KEYS[i] : i \in 1..Len(STAT_KEYS)}

MAX_PLAYERS_PER_TEAM == 5

SCORING_CONFIG ==
  [twosAndThrees |->
     [lowLabel |-> <<"2", "P">>, highLabel |-> <<"3", "P">>,
      lowPoints |-> 2, highPoints |-> 3],
   onesAndTwos |->
     [lowLabel |-> <<"1", "P">>, highLabel |-> <<"2", "P">>,
      lowPoints |-> 1, highPoints |-> 2]]

ScoringModes == {"twosAndThrees", "onesAndTwos"}

\* a StatDelta is a function from a subset of the stat keys to numbers
Delta1(k) == [x \in {k} |-> 1]
\* variant: a delta of two keys names the second only
Delta2_secondOnly(k1, k2) == [x \in {k2} |-> 1]

Delta2(k1, k2) == [x \in {k1, k2} |-> 1]

scoringActions(mode) ==
  LET config == SCORING_CONFIG[mode] IN
  << [id |-> "low-make", label |-> <<"+", Digit(config.lowPoints)>> \o <<" ", "M", "a", "k", "e">>,
      short |-> config.lowLabel \o <<"M">>, tone |-> "make",
      delta |-> Delta2("lowPA", "lowPM")],
     [id |-> "low-miss", label |-> config.lowLabel \o <<" ", "M", "i", "s", "s">>,
      short |-> config.lowLabel \o <<"A">>, tone |-> "miss",
      delta |-> Delta1("lowPA")],
     [id |-> "high-make", label |-> <<"+", Digit(config.highPoints)>> \o <<" ", "M", "a", "k", "e">>,
      short |-> config.highLabel \o <<"M">>, tone |-> "make",
      delta |-> Delta2("highPA", "highPM")],
     [id |-> "high-miss", label |-> config.highLabel \o <<" ", "M", "i", "s", "s">>,
      short |-> config.highLabel \o <<"A">>, tone |-> "miss",
      delta |-> Delta1("highPA")],
     [id |-> "ast", label |-> <<"A", "S", "T">>, short |-> <<"A", "S", "T">>,
      tone |-> "event", delta |-> Delta1("ast")],
     [id |-> "stl", label |-> <<"S", "T", "L">>, short |-> <<"S", "T", "L">>,
      tone |-> "event", delta |-> Delta1("stl")],
     [id |-> "blk", label |-> <<"B", "L", "K">>, short |-> <<"B", "L", "K">>,
      tone |-> "event", delta |-> Delta1("blk")],
     [id |-> "reb", label |-> <<"R", "E", "B">>, short |-> <<"R", "E", "B">>,
      tone |-> "event", delta |-> Delta1("reb")],
     [id |-> "tov", label |-> <<"T", "O", "V">>, short |-> <<"T", "O", "V">>,
      tone |-> "event", delta |-> Delta1("tov")],
     [id |-> "tovf", label |-> <<"T", "O", "V", "F">>, short |-> <<"T", "O", "V", "F">>,
      tone |-> "event", delta |-> Delta1("tovf")] >>

blankStatLine == [k \in StatKeySet |-> 0]

\* variant: the point values of the two shots are swapped
playerPoints_swapsValues(player, scoringMode) ==
  player.stats["lowPM"] * SCORING_CONFIG[scoringMode].highPoints
    + player.stats["highPM"] * SCORING_CONFIG[scoringMode].lowPoints

playerPoints(player, scoringMode) ==
  player.stats["lowPM"] * SCORING_CONFIG[scoringMode].lowPoints
    + player.stats["highPM"] * SCORING_CONFIG[scoringMode].highPoints

\* team.players.reduce((total, player) => total + playerPoints(...), 0)
RECURSIVE PointsFrom(_, _, _)
PointsFrom(total, players, scoringMode) ==
  IF players = <<>> THEN total
  ELSE PointsFrom(total + playerPoints(Head(players), scoringMode), Tail(players),
                  scoringMode)

teamPoints(team, scoringMode) == PointsFrom(0, team.players, scoringMode)

createSetupTeam(label) == [label |-> label, names |-> [i \in 1..5 |-> EmptyStr]]

\* variant: the default labels are blank
defaultSetup_blankLabels ==
  [A |-> createSetupTeam(EmptyStr), B |-> createSetupTeam(EmptyStr)]

defaultSetup ==
  [A |-> createSetupTeam(S_TeamPrefix \o <<"A">>),
   B |-> createSetupTeam(S_TeamPrefix \o <<"B">>)]

Max(a, b) == IF a >= b THEN a ELSE b

clampToZero(value) == Max(0, value)

\* Variants of applyDelta with a plausible slip, for testing that the
\* properties tell them from applyDelta: one forgets the clamp, one the
\* direction.
applyDelta_noClamp(currentStats, delta, direction) ==
  [statKey \in StatKeySet |->
     currentStats[statKey]
       + (IF statKey \in DOMAIN delta THEN delta[statKey] ELSE 0) * direction]

applyDelta_ignoresDirection(currentStats, delta, direction) ==
  [statKey \in StatKeySet |->
     Max(0, currentStats[statKey]
              + (IF statKey \in DOMAIN delta THEN delta[statKey] ELSE 0))]

\* variant: a counter the delta does not name is reset
applyDelta_absentKeyResets(currentStats, delta, direction) ==
  [statKey \in StatKeySet |->
     IF statKey \in DOMAIN delta
     THEN Max(0, currentStats[statKey] + delta[statKey] * direction)
     ELSE 0]

\* variant: the clamp is put on the step instead of on the sum
applyDelta_clampsStep(currentStats, delta, direction) ==
  [statKey \in StatKeySet |->
     currentStats[statKey]
       + Max(0, (IF statKey \in DOMAIN delta THEN delta[statKey] ELSE 0) * direction)]

applyDelta(currentStats, delta, direction) ==
  [statKey \in StatKeySet |->
     LET deltaValue == IF statKey \in DOMAIN delta THEN delta[statKey] ELSE 0
     IN  Max(0, currentStats[statKey] + deltaValue * direction)]

(***************************************************************************)
(* Parsed JSON.  A value read from the store is a tagged record; an object *)
(* is a function from its keys, an array a sequence.  JNonFinite is a      *)
(* number literal too large for a double (1e999), which parses to Infinity.*)
(***************************************************************************)
JUndef == [t |-> "undef"]
JNull == [t |-> "null"]
JNonFinite == [t |-> "inf"]
JBool(b) == [t |-> "bool", b |-> b]
JNum(n) == [t |-> "num", n |-> n]
JStr(s) == [t |-> "str", s |-> s]
JArr(a) == [t |-> "arr", a |-> a]
JObj(o) == [t |-> "obj", o |-> o]
\* the function with the empty domain: an object without keys, an empty delta
EmptyFn == [k \in {} |-> 0]
EmptyObj == JObj(EmptyFn)

\* the content of the storage key: nothing, the empty text, a text that is not
\* JSON, a JSON text (as the value it parses to), or the text JSON.stringify
\* wrote for a snapshot of the state (as that snapshot; see ParsedValue)
StoredAbsent == [kind |-> "absent"]
StoredEmpty == [kind |-> "empty"]
StoredGarbage == [kind |-> "garbage"]
StoredJson(v) == [kind |-> "json", value |-> v]
StoredSnapshot(state) == [kind |-> "snapshot", state |-> state]

\* value[key] for a property name that is not an array index
Get(value, key) ==
  IF value.t = "obj" /\ key \in DOMAIN value.o THEN value.o[key] ELSE JUndef

\* value[index] of an array, index counted from 0
At(arr, index) == IF index + 1 \in 1..Len(arr) THEN arr[index + 1] ELSE JUndef

isRecord(value) == value.t \in {"obj", "arr"}

isArray(value) == value.t = "arr"

isPhase(value) == value.t = "str" /\ value.s \in {S_setup, S_game, S_editNames}

isScoringMode(value) == value.t = "str" /\ value.s \in {S_twosAndThrees, S_onesAndTwos}

isTeamId(value) == value.t = "str" /\ value.s \in {<<"A">>, <<"B">>}

isTeamSize(value) == value.t = "num" /\ value.n \in {4, 5}

safeString(value, fallback) == IF value.t = "str" THEN value.s ELSE fallback

safeNumber(value, fallback) == IF value.t = "num" THEN value.n ELSE fallback

PhaseOf(s) ==
  CASE s = S_setup -> "setup" [] s = S_game -> "game" [] s = S_editNames -> "editNames"

ScoringModeOf(s) ==
  CASE s = S_twosAndThrees -> "twosAndThrees" [] s = S_onesAndTwos -> "onesAndTwos"

PhaseStr(p) ==
  CASE p = "setup" -> S_setup [] p = "game" -> S_game [] p = "editNames" -> S_editNames

ScoringModeStr(m) ==
  CASE m = "twosAndThrees" -> S_twosAndThrees [] m = "onesAndTwos" -> S_onesAndTwos

\* `${n}` for the small non-negative integers of the model
RECURSIVE NumStr(_)
NumStr(n) == IF n < 10 THEN <<Digit(n)>> ELSE NumStr(n \div 10) \o <<Digit(n % 10)>>

PlayerIdOf(teamId, slot) == <<teamId, "-">> \o NumStr(slot)

PlayerFallbackName(slot) == <<"P">> \o NumStr(slot)

TeamFallbackLabel(teamId) == S_TeamPrefix \o <<teamId>>

normalizeStatLine(value) ==
  LET source == IF isRecord(value) THEN value ELSE EmptyObj
  IN  [statKey \in StatKeySet |-> clampToZero(safeNumber(Get(source, statKey), 0))]

\* variant: a known key with a value that is no finite number is kept as 0
normalizeStatDelta_zeroFills(value) ==
  IF ~isRecord(value) THEN EmptyFn
  ELSE [statKey \in {k \in StatKeySet : Get(value, k).t # "undef"} |->
          safeNumber(Get(value, statKey), 0)]

normalizeStatDelta(value) ==
  IF ~isRecord(value) THEN EmptyFn
  ELSE [statKey \in {k \in StatKeySet : Get(value, k).t = "num"} |->
          Get(value, statKey).n]

\* variant: the label is trimmed while loading
normalizeSetupTeam_trimmed(value, fallbackLabel) ==
  LET source == IF isRecord(value) THEN value ELSE EmptyObj
      rawNames == IF isArray(Get(source, "names")) THEN Get(source, "names").a ELSE <<>>
  IN  [label |-> Trim(safeString(Get(source, "label"), fallbackLabel)),
       names |-> [i \in 1..MAX_PLAYERS_PER_TEAM |->
                    safeString(At(rawNames, i - 1), EmptyStr)]]

normalizeSetupTeam(value, fallbackLabel) ==
  LET source == IF isRecord(value) THEN value ELSE EmptyObj
      rawNames == IF isArray(Get(source, "names")) THEN Get(source, "names").a ELSE <<>>
  IN  [label |-> safeString(Get(source, "label"), fallbackLabel),
       names |-> [i \in 1..MAX_PLAYERS_PER_TEAM |->
                    safeString(At(rawNames, i - 1), EmptyStr)]]

normalizePlayer(value, teamId, index) ==
  LET source == IF isRecord(value) THEN value ELSE EmptyObj
  IN  [id |-> safeString(Get(source, "id"), PlayerIdOf(teamId, index + 1)),
       name |-> safeString(Get(source, "name"), PlayerFallbackName(index + 1)),
       stats |-> normalizeStatLine(Get(source, "stats"))]

normalizeTeam(value, fallbackTeamId) ==
  LET source == IF isRecord(value) THEN value ELSE EmptyObj
      id == IF isTeamId(Get(source, "id")) THEN Get(source, "id").s[1] ELSE fallbackTeamId
      rawPlayers == IF isArray(Get(source, "players")) THEN Get(source, "players").a ELSE <<>>
  IN  [id |-> id,
       label |-> safeString(Get(source, "label"), TeamFallbackLabel(id)),
       players |-> [i \in 1..Len(rawPlayers) |-> normalizePlayer(rawPlayers[i], id, i - 1)]]

RECURSIVE normalizeHistory(_)
normalizeHistory(value) ==
  IF ~isArray(value) \/ value.a = <<>> THEN <<>>
  ELSE LET item == Head(value.a)
           rest == normalizeHistory(JArr(Tail(value.a)))
       IN  IF ~isRecord(item) \/ ~isTeamId(Get(item, "teamId")) THEN rest
           ELSE << [teamId |-> Get(item, "teamId").s[1],
                    playerId |-> safeString(Get(item, "playerId"), EmptyStr),
                    delta |-> normalizeStatDelta(Get(item, "delta")),
                    label |-> safeString(Get(item, "label"), EmptyStr)] >> \o rest

\* teams.find((team) => team.id === teamId): the index of the first team with
\* that id, 0 when there is none
FindTeam(teamList, teamId) ==
  IF \E i \in 1..Len(teamList) : teamList[i].id = teamId
  THEN CHOOSE i \in 1..Len(teamList) :
         /\ teamList[i].id = teamId
         /\ \A j \in 1..(i - 1) : teamList[j].id # teamId
  ELSE 0

\* players.find((player) => player.id === playerId), likewise
FindPlayer(players, playerId) ==
  IF \E i \in 1..Len(players) : players[i].id = playerId
  THEN CHOOSE i \in 1..Len(players) :
         /\ players[i].id = playerId
         /\ \A j \in 1..(i - 1) : players[j].id # playerId
  ELSE 0

\* variant: the recorded player is kept whenever the team has players
resolveSelectedPlayerId_keepsRecorded(teamList, teamId, playerId) ==
  LET t == FindTeam(teamList, teamId) IN
  IF t = 0 \/ teamList[t].players = <<>> THEN EmptyStr
  ELSE IF playerId # EmptyStr THEN playerId ELSE teamList[t].players[1].id

resolveSelectedPlayerId(teamList, teamId, playerId) ==
  LET t == FindTeam(teamList, teamId) IN
  IF t = 0 \/ teamList[t].players = <<>> THEN EmptyStr
  ELSE LET p == FindPlayer(teamList[t].players, playerId)
       IN  IF p # 0 THEN teamList[t].players[p].id ELSE teamList[t].players[1].id

\* the loop of loadPersistedState that fills teamsById: a function from the
\* team ids seen so far to the first team normalized with that id
RECURSIVE CollectTeams(_, _)
CollectTeams(rawTeams, teamsById) ==
  IF rawTeams = <<>> THEN teamsById
  ELSE LET fallbackTeamId == IF "A" \in DOMAIN teamsById THEN "B" ELSE "A"
           normalized == normalizeTeam(Head(rawTeams), fallbackTeamId)
       IN  CollectTeams(
             Tail(rawTeams),
             IF normalized.id \in DOMAIN teamsById THEN teamsById
             ELSE [id \in DOMAIN teamsById \cup {normalized.id} |->
                     IF id = normalized.id THEN normalized ELSE teamsById[id]])

\* TEAM_IDS.flatMap over teamsById
\* variant: team B is put before team A
TeamsInOrder_bFirst(teamsById) ==
  (IF "B" \in DOMAIN teamsById THEN <<teamsById["B"]>> ELSE <<>>)
    \o (IF "A" \in DOMAIN teamsById THEN <<teamsById["A"]>> ELSE <<>>)

TeamsInOrder(teamsById) ==
  (IF "A" \in DOMAIN teamsById THEN <<teamsById["A"]>> ELSE <<>>)
    \o (IF "B" \in DOMAIN teamsById THEN <<teamsById["B"]>> ELSE <<>>)

NoState == [ok |-> FALSE]

\* variant: the recorded phase is kept whatever the roster
coercePhase_keepsPhase(loadedTeams, initialPhase) == initialPhase

\* a game or name-editing phase without teams is opened as setup
coercePhase(loadedTeams, initialPhase) ==
  IF loadedTeams = <<>> /\ initialPhase # "setup" THEN "setup" ELSE initialPhase

loadPersistedStateFrom(raw, parsed) ==
  IF raw.kind \in {"absent", "empty", "garbage"} THEN NoState
  ELSE IF ~isRecord(parsed) THEN NoState
  ELSE
    LET rawSetup == IF isRecord(Get(parsed, "setup")) THEN Get(parsed, "setup") ELSE EmptyObj
        loadedSetup == [A |-> normalizeSetupTeam(Get(rawSetup, "A"), TeamFallbackLabel("A")),
                        B |-> normalizeSetupTeam(Get(rawSetup, "B"), TeamFallbackLabel("B"))]
        rawTeams == IF isArray(Get(parsed, "teams")) THEN Get(parsed, "teams").a ELSE <<>>
        loadedTeams == TeamsInOrder(CollectTeams(rawTeams, EmptyFn))
        loadedPlayerCount ==
          IF isTeamSize(Get(parsed, "playerCount")) THEN Get(parsed, "playerCount").n ELSE 5
        loadedSetupMode ==
          IF isScoringMode(Get(parsed, "setupScoringMode"))
          THEN ScoringModeOf(Get(parsed, "setupScoringMode").s)
          ELSE "twosAndThrees"
        loadedGameMode ==
          IF isScoringMode(Get(parsed, "gameScoringMode"))
          THEN ScoringModeOf(Get(parsed, "gameScoringMode").s)
          ELSE loadedSetupMode
        rawSelTeam == Get(parsed, "selectedTeamId")
        loadedSelTeam ==
          IF isTeamId(rawSelTeam) /\ FindTeam(loadedTeams, rawSelTeam.s[1]) # 0
          THEN rawSelTeam.s[1]
          ELSE IF loadedTeams # <<>> THEN loadedTeams[1].id ELSE "A"
        loadedSelPlayer ==
          resolveSelectedPlayerId(loadedTeams, loadedSelTeam,
                                  safeString(Get(parsed, "selectedPlayerId"), EmptyStr))
        initialPhase ==
          IF isPhase(Get(parsed, "phase")) THEN PhaseOf(Get(parsed, "phase").s) ELSE "setup"
        loadedPhase == coercePhase(loadedTeams, initialPhase)
    IN  [ok |-> TRUE,
         phase |-> loadedPhase,
         playerCount |-> loadedPlayerCount,
         setupScoringMode |-> loadedSetupMode,
         gameScoringMode |-> loadedGameMode,
         setup |-> loadedSetup,
         teams |-> loadedTeams,
         selectedTeamId |-> loadedSelTeam,
         selectedPlayerId |-> loadedSelPlayer,
         history |-> normalizeHistory(Get(parsed, "history")),
         lastAction |-> safeString(Get(parsed, "lastAction"), EmptyStr)]

(***************************************************************************)
(* Serialization (JSON.stringify): the text written to the store and the   *)
(* share signature are modelled by the JSON value they parse back to.      *)
(***************************************************************************)
StatLineJson(stats) == JObj([k \in StatKeySet |-> JNum(stats[k])])

DeltaJson(delta) == JObj([k \in DOMAIN delta |-> JNum(delta[k])])

PlayerJson(player) ==
  JObj([k \in {"id", "name", "stats"} |->
          CASE k = "id" -> JStr(player.id)
            [] k = "name" -> JStr(player.name)
            [] k = "stats" -> StatLineJson(player.stats)])

TeamJson(team) ==
  JObj([k \in {"id", "label", "players"} |->
          CASE k = "id" -> JStr(<<team.id>>)
            [] k = "label" -> JStr(team.label)
            [] k = "players" ->
                 JArr([i \in 1..Len(team.players) |-> PlayerJson(team.players[i])])])

TeamsJson(teamList) == JArr([i \in 1..Len(teamList) |-> TeamJson(teamList[i])])

SetupTeamJson(setupTeam) ==
  JObj([k \in {"label", "names"} |->
          CASE k = "label" -> JStr(setupTeam.label)
            [] k = "names" ->
                 JArr([i \in 1..Len(setupTeam.names) |-> JStr(setupTeam.names[i])])])

LoggedActionJson(entry) ==
  JObj([k \in {"teamId", "playerId", "delta", "label"} |->
          CASE k = "teamId" -> JStr(<<entry.teamId>>)
            [] k = "playerId" -> JStr(entry.playerId)
            [] k = "delta" -> DeltaJson(entry.delta)
            [] k = "label" -> JStr(entry.label)])

PersistedKeys ==
  {"phase", "playerCount", "setupScoringMode", "gameScoringMode", "setup", "teams",
   "selectedTeamId", "selectedPlayerId", "history", "lastAction"}

PersistedJson(s) ==
  JObj([k \in PersistedKeys |->
          CASE k = "phase" -> JStr(PhaseStr(s.phase))
            [] k = "playerCount" -> JNum(s.playerCount)
            [] k = "setupScoringMode" -> JStr(ScoringModeStr(s.setupScoringMode))
            [] k = "gameScoringMode" -> JStr(ScoringModeStr(s.gameScoringMode))
            [] k = "setup" ->
                 JObj([t \in TeamIdSet |-> SetupTeamJson(s.setup[t])])
            [] k = "teams" -> TeamsJson(s.teams)
            [] k = "selectedTeamId" -> JStr(<<s.selectedTeamId>>)
            [] k = "selectedPlayerId" -> JStr(s.selectedPlayerId)
            [] k = "history" ->
                 JArr([i \in 1..Len(s.history) |-> LoggedActionJson(s.history[i])])
            [] k = "lastAction" -> JStr(s.lastAction)])

PersistedFields(s) ==
  [phase |-> s.phase, playerCount |-> s.playerCount,
   setupScoringMode |-> s.setupScoringMode, gameScoringMode |-> s.gameScoringMode,
   setup |-> s.setup, teams |-> s.teams,
   selectedTeamId |-> s.selectedTeamId, selectedPlayerId |-> s.selectedPlayerId,
   history |-> s.history, lastAction |-> s.lastAction]

persistState(s) == StoredSnapshot(PersistedFields(s))

\* the stored text after persistState(s): the snapshot, or, when setItem
\* throws, what was there before (the catch block swallows the exception)
storedAfterPersist(s) == IF s.storageFails THEN s.stored ELSE persistState(s)

\* JSON.parse of the stored text
ParsedValue(raw) ==
  CASE raw.kind = "json" -> raw.value
    [] raw.kind = "snapshot" -> PersistedJson(raw.state)
    [] OTHER -> JUndef

loadPersistedState(raw) == loadPersistedStateFrom(raw, ParsedValue(raw))

\* variant: the scoring mode is left out of the signature
shareCaptureSignature_ignoresMode(teamList, scoringMode) ==
  [scoringMode |-> "twosAndThrees",
   teams |-> [t \in 1..Len(teamList) |->
                [id |-> teamList[t].id,
                 label |-> teamList[t].label,
                 players |-> [i \in 1..Len(teamList[t].players) |->
                                [id |-> teamList[t].players[i].id,
                                 name |-> teamList[t].players[i].name,
                                 stats |-> teamList[t].players[i].stats]]]]]

\* the object handed to JSON.stringify; the handlers and effects compare
\* signatures with ===, which SignatureText below shows to agree with the
\* equality of these objects
shareCaptureSignature(teamList, scoringMode) ==
  [scoringMode |-> scoringMode,
   teams |-> [t \in 1..Len(teamList) |->
                [id |-> teamList[t].id,
                 label |-> teamList[t].label,
                 players |-> [i \in 1..Len(teamList[t].players) |->
                                [id |-> teamList[t].players[i].id,
                                 name |-> teamList[t].players[i].name,
                                 stats |-> teamList[t].players[i].stats]]]]]

\* JSON.stringify of a string: its characters between quotes, a quote or a
\* backslash preceded by a backslash
RECURSIVE Escaped(_)
Escaped(str) ==
  IF str = <<>> THEN <<>>
  ELSE (IF Head(str) \in {"\"", "\\"} THEN <<"\\", Head(str)>> ELSE <<Head(str)>>)
         \o Escaped(Tail(str))

QuoteText(str) == <<"\"">> \o Escaped(str) \o <<"\"">>

\* the texts of a list joined by commas
RECURSIVE JoinTexts(_)
JoinTexts(texts) ==
  IF texts = <<>> THEN <<>>
  ELSE IF Len(texts) = 1 THEN texts[1]
  ELSE texts[1] \o <<",">> \o JoinTexts(Tail(texts))

\* a property name is written as one unit: "name":
KeyText(key) == <<"\"", key, "\"", ":">>

StatsText(stats) ==
  <<"{">> \o JoinTexts([k \in 1..Len(STAT_KEYS) |->
                          KeyText(STAT_KEYS[k]) \o NumStr(stats[STAT_KEYS[k]])])
         \o <<"}">>

PlayerText(player) ==
  <<"{">> \o KeyText("id") \o QuoteText(player.id) \o <<",">>
         \o KeyText("name") \o QuoteText(player.name) \o <<",">>
         \o KeyText("stats") \o StatsText(player.stats) \o <<"}">>

TeamText(team) ==
  <<"{">> \o KeyText("id") \o QuoteText(<<team.id>>) \o <<",">>
         \o KeyText("label") \o QuoteText(team.label) \o <<",">>
         \o KeyText("players") \o <<"[">>
         \o JoinTexts([i \in 1..Len(team.players) |-> PlayerText(team.players[i])])
         \o <<"]", "}">>

\* the text JSON.stringify makes of the signature object
SignatureText(signature) ==
  <<"{">> \o KeyText("scoringMode")
         \o QuoteText(ScoringModeStr(signature.scoringMode)) \o <<",">>
         \o KeyText("teams") \o <<"[">>
         \o JoinTexts([t \in 1..Len(signature.teams) |-> TeamText(signature.teams[t])])
         \o <<"]", "}">>

(***************************************************************************)
(* Derived values of a render.                                             *)
(***************************************************************************)
PlayerIds(teamList) ==
  UNION {{teamList[t].players[p].id : p \in 1..Len(teamList[t].players)} :
           t \in 1..Len(teamList)}

\* variant: a team without included players is kept
shareTeams_keepsEmptyTeams(s) ==
  LET Included(player) ==
        ~(player.id \in DOMAIN s.shareSelectionByPlayerId
            /\ s.shareSelectionByPlayerId[player.id] = FALSE)
  IN  [t \in 1..Len(s.teams) |->
         [s.teams[t] EXCEPT !.players = SelectSeq(s.teams[t].players, Included)]]

shareTeams(s) ==
  LET Included(player) ==
        ~(player.id \in DOMAIN s.shareSelectionByPlayerId
            /\ s.shareSelectionByPlayerId[player.id] = FALSE)
      NonEmpty(team) == team.players # <<>>
      filtered == [t \in 1..Len(s.teams) |->
                     [s.teams[t] EXCEPT !.players = SelectSeq(s.teams[t].players, Included)]]
  IN  SelectSeq(filtered, NonEmpty)

RECURSIVE SumLen(_)
SumLen(teamList) ==
  IF teamList = <<>> THEN 0 ELSE Len(Head(teamList).players) + SumLen(Tail(teamList))

selectedSharePlayers(s) == SumLen(shareTeams(s))

currentShareSignature(s) == shareCaptureSignature(shareTeams(s), s.gameScoringMode)

\* no share attempt is under way
NoAttempt == [active |-> FALSE]

NoImage == [present |-> FALSE]
Image(signature) == [present |-> TRUE, signature |-> signature]

\* variant: any prepared image counts as ready
isShareImageReady_anyImage(s) == s.preparedShareImage.present

isShareImageReady(s) ==
  s.preparedShareImage.present /\ s.preparedShareImage.signature = currentShareSignature(s)

isSheetShareReady(s) ==
  /\ selectedSharePlayers(s) > 0
  /\ ~s.isPreparingShareImage
  /\ ~s.isSharing
  /\ (isShareImageReady(s) \/ s.hasSharePrepareError)

showSetup(s) == s.phase = "setup" \/ s.teams = <<>>
showEditNames(s) == s.phase = "editNames" /\ s.teams # <<>>
showGame(s) == ~showSetup(s) /\ ~showEditNames(s)

buildDefaultShareSelection(teamList) == [id \in PlayerIds(teamList) |-> TRUE]

\* variant: the rebuilt selection includes every player again
syncShareSelection_resetsFlags(currentSelection, teamList) ==
  LET nextSelection == [id \in PlayerIds(teamList) |-> TRUE]
      added == \E id \in PlayerIds(teamList) : id \notin DOMAIN currentSelection
      changed ==
        \/ added
        \/ Cardinality(DOMAIN currentSelection) # Cardinality(DOMAIN nextSelection)
        \/ \E id \in DOMAIN currentSelection : id \notin DOMAIN nextSelection
  IN  [changed |-> changed,
       selection |-> IF changed THEN nextSelection ELSE currentSelection]

\* the result and whether it is a new object (changed) or currentSelection
\* itself; an object is the finite map of its own keys
syncShareSelection(currentSelection, teamList) ==
  LET nextSelection ==
        [id \in PlayerIds(teamList) |->
           IF id \in DOMAIN currentSelection THEN currentSelection[id] ELSE TRUE]
      added == \E id \in PlayerIds(teamList) : id \notin DOMAIN currentSelection
      changed ==
        \/ added
        \/ Cardinality(DOMAIN currentSelection) # Cardinality(DOMAIN nextSelection)
        \/ \E id \in DOMAIN currentSelection : id \notin DOMAIN nextSelection
  IN  [changed |-> changed,
       selection |-> IF changed THEN nextSelection ELSE currentSelection]

(***************************************************************************)
(* The state of the component as one record, and the event handlers as     *)
(* functions from the state of the render they close over to the state     *)
(* they request.  touched names the object-valued cells the handler set:   *)
(* React compares those by identity, and every setter call below builds a  *)
(* new object.                                                             *)
(***************************************************************************)
State ==
  [phase |-> phase, playerCount |-> playerCount,
   setupScoringMode |-> setupScoringMode, gameScoringMode |-> gameScoringMode,
   setup |-> setup, teams |-> teams,
   selectedTeamId |-> selectedTeamId, selectedPlayerId |-> selectedPlayerId,
   history |-> history, lastAction |-> lastAction,
   shareStatus |-> shareStatus, preparedShareImage |-> preparedShareImage,
   isSharing |-> isSharing, isPreparingShareImage |-> isPreparingShareImage,
   hasSharePrepareError |-> hasSharePrepareError,
   shareSelectionByPlayerId |-> shareSelectionByPlayerId,
   isShareOptionsOpen |-> isShareOptionsOpen,
   sharePrepareJobId |-> sharePrepareJobId, jobs |-> jobs,
   shareAttempt |-> shareAttempt, stored |-> stored, storageFails |-> storageFails,
   touched |-> {}]

Touch(s, cells) == [s EXCEPT !.touched = @ \cup cells]

setPlayerCount(s, count) == [s EXCEPT !.playerCount = count]

setSetupScoringMode(s, mode) == [s EXCEPT !.setupScoringMode = mode]

updateTeamLabel(s, teamId, label) ==
  Touch([s EXCEPT !.setup[teamId].label = label], {"setup"})

\* index counts from 0, as in the source
updatePlayerName(s, teamId, index, name) ==
  Touch([s EXCEPT !.setup[teamId].names[index + 1] = name], {"setup"})

closeShareOptions(s) ==
  [s EXCEPT !.sharePrepareJobId = @ + 1,
            !.isPreparingShareImage = FALSE,
            !.hasSharePrepareError = FALSE,
            !.isShareOptionsOpen = FALSE]

\* names[index]?.trim() || fallback, index counted from 1 here
NameOr(names, i, fallback) ==
  OrElse(IF i \in DOMAIN names THEN Trim(names[i]) ELSE EmptyStr, fallback)

\* a variant of seedTeams that forgets to trim the label
seedTeams_untrimmed(s) ==
  [t \in 1..Len(TEAM_IDS) |->
     LET teamId == TEAM_IDS[t]
         teamSetup == s.setup[teamId]
     IN  [id |-> teamId,
          label |-> OrElse(teamSetup.label, TeamFallbackLabel(teamId)),
          players |-> [i \in 1..s.playerCount |->
                         [id |-> PlayerIdOf(teamId, i),
                          name |-> NameOr(teamSetup.names, i, PlayerFallbackName(i)),
                          stats |-> blankStatLine]]]]

seedTeams(s) ==
  [t \in 1..Len(TEAM_IDS) |->
     LET teamId == TEAM_IDS[t]
         teamSetup == s.setup[teamId]
     IN  [id |-> teamId,
          label |-> OrElse(Trim(teamSetup.label), TeamFallbackLabel(teamId)),
          players |-> [i \in 1..s.playerCount |->
                         [id |-> PlayerIdOf(teamId, i),
                          name |-> NameOr(teamSetup.names, i, PlayerFallbackName(i)),
                          stats |-> blankStatLine]]]]

\* variant: the selection is left as it was
startGame_keepsSelection(s) ==
  LET seededTeams == seedTeams(s) IN
  closeShareOptions(
    Touch([s EXCEPT !.gameScoringMode = s.setupScoringMode,
                    !.teams = seededTeams,
                    !.shareSelectionByPlayerId = buildDefaultShareSelection(seededTeams),
                    !.history = <<>>,
                    !.lastAction = S_GameStarted,
                    !.phase = "game"],
          {"teams", "shareSelection", "history"}))

startGame(s) ==
  LET seededTeams == seedTeams(s) IN
  closeShareOptions(
    Touch([s EXCEPT !.gameScoringMode = s.setupScoringMode,
                    !.teams = seededTeams,
                    !.selectedTeamId = seededTeams[1].id,
                    !.selectedPlayerId =
                       IF seededTeams[1].players # <<>>
                       THEN seededTeams[1].players[1].id ELSE EmptyStr,
                    !.shareSelectionByPlayerId = buildDefaultShareSelection(seededTeams),
                    !.history = <<>>,
                    !.lastAction = S_GameStarted,
                    !.phase = "game"],
          {"teams", "shareSelection", "history"}))

\* variant: the staged names are not padded
stageNames_unpadded(s) ==
  [teamId \in TeamIdSet |->
     LET t == FindTeam(s.teams, teamId) IN
     IF t = 0 THEN s.setup[teamId]
     ELSE [label |-> s.teams[t].label,
           names |-> [i \in 1..Len(s.teams[t].players) |-> s.teams[t].players[i].name]]]

\* the setup staged by beginEditNames: each existing team's label and names,
\* the names padded with blanks to five
stageNames(s) ==
  [teamId \in TeamIdSet |->
     LET t == FindTeam(s.teams, teamId) IN
     IF t = 0 THEN s.setup[teamId]
     ELSE LET players == s.teams[t].players
              width == Max(Len(players), 5)
          IN  [label |-> s.teams[t].label,
               names |-> [i \in 1..width |->
                            IF i <= Len(players) THEN players[i].name ELSE EmptyStr]]]

\* a variant of beginEditNames without its guard (teams[0]?.players)
beginEditNames_unguarded(s) ==
  closeShareOptions(
    Touch([s EXCEPT !.playerCount =
                       IF s.teams # <<>> /\ Len(s.teams[1].players) = 4 THEN 4 ELSE 5,
                    !.setup = stageNames(s),
                    !.shareStatus = EmptyStr,
                    !.phase = "editNames"],
          {"setup"}))

beginEditNames(s) ==
  IF s.teams = <<>> THEN s
  ELSE closeShareOptions(
         Touch([s EXCEPT !.playerCount = IF Len(s.teams[1].players) = 4 THEN 4 ELSE 5,
                         !.setup = stageNames(s),
                         !.shareStatus = EmptyStr,
                         !.phase = "editNames"],
               {"setup"}))

\* a variant of saveEditedNames that rebuilds the players as startGame does
saveEditedNames_resetsStats(s) ==
  Touch([s EXCEPT
           !.teams =
              [t \in 1..Len(s.teams) |->
                 LET team == s.teams[t]
                     teamSetup == s.setup[team.id]
                 IN  [team EXCEPT
                        !.label = OrElse(Trim(teamSetup.label), team.label),
                        !.players =
                           [i \in 1..Len(team.players) |->
                              [team.players[i] EXCEPT
                                 !.name = NameOr(teamSetup.names, i,
                                                 PlayerFallbackName(i)),
                                 !.stats = blankStatLine]]]],
           !.lastAction = S_NamesUpdated,
           !.shareStatus = EmptyStr,
           !.phase = "game"],
        {"teams"})

\* variant: a player's id is replaced by the saved name
saveEditedNames_idsFromNames(s) ==
  Touch([s EXCEPT
           !.teams =
              [t \in 1..Len(s.teams) |->
                 LET team == s.teams[t]
                     teamSetup == s.setup[team.id]
                 IN  [team EXCEPT
                        !.label = OrElse(Trim(teamSetup.label), team.label),
                        !.players =
                           [i \in 1..Len(team.players) |->
                              [team.players[i] EXCEPT
                                 !.id = NameOr(teamSetup.names, i, PlayerFallbackName(i)),
                                 !.name = NameOr(teamSetup.names, i,
                                                 PlayerFallbackName(i))]]]],
           !.lastAction = S_NamesUpdated,
           !.shareStatus = EmptyStr,
           !.phase = "game"],
        {"teams"})

saveEditedNames(s) ==
  Touch([s EXCEPT
           !.teams =
              [t \in 1..Len(s.teams) |->
                 LET team == s.teams[t]
                     teamSetup == s.setup[team.id]
                 IN  [team EXCEPT
                        !.label = OrElse(Trim(teamSetup.label), team.label),
                        !.players =
                           [i \in 1..Len(team.players) |->
                              [team.players[i] EXCEPT
                                 !.name = NameOr(teamSetup.names, i,
                                                 PlayerFallbackName(i))]]]],
           !.lastAction = S_NamesUpdated,
           !.shareStatus = EmptyStr,
           !.phase = "game"],
        {"teams"})

cancelEditNames(s) == [s EXCEPT !.phase = "game"]

openShareOptions(s) ==
  IF s.teams = <<>> THEN s
  ELSE [s EXCEPT !.shareStatus = EmptyStr,
                 !.hasSharePrepareError = FALSE,
                 !.isShareOptionsOpen = TRUE]

selectPlayerTarget(s, teamId, playerId) ==
  [s EXCEPT !.selectedTeamId = teamId, !.selectedPlayerId = playerId]

\* the keydown listener of the open sheet, and the timeout that ends a
\* dismissing drag: both only close the sheet
dismissShareOptions(s) == [s EXCEPT !.isShareOptionsOpen = FALSE]

handleKeyDown(s, key) == IF key = "Escape" THEN dismissShareOptions(s) ELSE s

\* currentSelection[playerId] !== false
currentlySelected(currentSelection, playerId) ==
  ~(playerId \in DOMAIN currentSelection /\ currentSelection[playerId] = FALSE)

toggleSharePlayer(s, playerId) ==
  Touch([s EXCEPT
           !.shareStatus = EmptyStr,
           !.shareSelectionByPlayerId =
              [id \in DOMAIN @ \cup {playerId} |->
                 IF id = playerId THEN ~currentlySelected(@, playerId) ELSE @[id]]],
        {"shareSelection"})

setShareSelectionForAllPlayers(s, isSelected) ==
  Touch([s EXCEPT
           !.shareStatus = EmptyStr,
           !.shareSelectionByPlayerId =
              [id \in DOMAIN @ \cup PlayerIds(s.teams) |->
                 IF id \in PlayerIds(s.teams) THEN isSelected ELSE @[id]]],
        {"shareSelection"})

\* the flag of a player id is that of the last roster player carrying it
setShareSelectionForTeamOnly(s, teamId) ==
  LET LastTeamOf(id) ==
        CHOOSE t \in 1..Len(s.teams) :
          /\ \E i \in 1..Len(s.teams[t].players) : s.teams[t].players[i].id = id
          /\ \A u \in (t + 1)..Len(s.teams) :
               \A i \in 1..Len(s.teams[u].players) : s.teams[u].players[i].id # id
  IN  Touch([s EXCEPT
               !.shareStatus = EmptyStr,
               !.shareSelectionByPlayerId =
                  [id \in DOMAIN @ \cup PlayerIds(s.teams) |->
                     IF id \in PlayerIds(s.teams)
                     THEN s.teams[LastTeamOf(id)].id = teamId
                     ELSE @[id]]],
            {"shareSelection"})

\* prepareShareImage up to its first await: the signature of the render it
\* was built in, and whether the prepared image carries that signature
Attempt(s) ==
  [active |-> TRUE,
   signature |-> currentShareSignature(s),
   usedPreparedImage |->
     s.preparedShareImage.present
       /\ s.preparedShareImage.signature = currentShareSignature(s),
   stage |->
     IF s.preparedShareImage.present
          /\ s.preparedShareImage.signature = currentShareSignature(s)
     THEN "reuse" ELSE "render"]

\* variant: an attempt under way does not stop another from starting
shareBoxScore_ignoresSharing(s, render) ==
  IF render.teams = <<>> THEN s
  ELSE IF shareTeams(render) = <<>> THEN [s EXCEPT !.shareStatus = S_SelectOne]
  ELSE [s EXCEPT !.isSharing = TRUE,
                 !.shareStatus = EmptyStr,
                 !.hasSharePrepareError = FALSE,
                 !.shareAttempt = Attempt(render)]

\* shareBoxScore up to its first await
shareBoxScore(s, render) ==
  IF render.teams = <<>> \/ render.isSharing THEN s
  ELSE IF shareTeams(render) = <<>> THEN [s EXCEPT !.shareStatus = S_SelectOne]
  ELSE [s EXCEPT !.isSharing = TRUE,
                 !.shareStatus = EmptyStr,
                 !.hasSharePrepareError = FALSE,
                 !.shareAttempt = Attempt(render)]

shareFromShareOptions(s) ==
  IF ~isSheetShareReady(s) THEN s ELSE shareBoxScore(closeShareOptions(s), s)

\* the image in hand goes to navigator.share when canShare accepts the
\* payload (the call is then pending), and is downloaded otherwise
handImageOver(s, canShare) ==
  IF canShare THEN [s EXCEPT !.shareAttempt.stage = "share"]
  ELSE [s EXCEPT !.shareStatus = S_Downloaded,
                 !.isSharing = FALSE,
                 !.shareAttempt = NoAttempt]

\* html2canvas and toBlob delivered the image: it is cached under the
\* attempt's signature and handed over
shareImageRendered(s, canShare) ==
  handImageOver(Touch([s EXCEPT !.preparedShareImage = Image(s.shareAttempt.signature)],
                      {"prepared"}),
                canShare)

\* prepareShareImage resolved with the prepared image: it is handed over
shareImageReused(s, canShare) == handImageOver(s, canShare)

\* prepareShareImage threw: imageFile is still null in the catch block
shareRenderFailed(s) ==
  [s EXCEPT !.hasSharePrepareError = TRUE,
            !.shareStatus = S_CouldNotShare,
            !.isSharing = FALSE,
            !.shareAttempt = NoAttempt]

\* navigator.share resolved
shareDelivered(s) ==
  [s EXCEPT !.shareStatus = S_Shared,
            !.isSharing = FALSE,
            !.shareAttempt = NoAttempt]

\* variant: isSharing is not reset when the share call rejects
shareRejected_staysSharing(s, lostActivation) ==
  [s EXCEPT !.shareStatus =
              IF lostActivation /\ ~s.shareAttempt.usedPreparedImage
              THEN S_TapAgain ELSE S_CouldNotShare,
            !.shareAttempt = NoAttempt]

\* navigator.share rejected
shareRejected(s, lostActivation) ==
  [s EXCEPT !.shareStatus =
              IF lostActivation /\ ~s.shareAttempt.usedPreparedImage
              THEN S_TapAgain ELSE S_CouldNotShare,
            !.isSharing = FALSE,
            !.shareAttempt = NoAttempt]

\* a variant of applyToPlayer that forgets to compare the player id
applyToPlayer_wholeTeam(teamList, teamId, playerId, delta, direction) ==
  [t \in 1..Len(teamList) |->
     IF teamList[t].id # teamId THEN teamList[t]
     ELSE [teamList[t] EXCEPT
             !.players =
                [i \in 1..Len(teamList[t].players) |->
                   [teamList[t].players[i] EXCEPT
                      !.stats = applyDelta(@, delta, direction)]]]]

\* teams with applyDelta applied to every player of team teamId whose id is playerId
applyToPlayer(teamList, teamId, playerId, delta, direction) ==
  [t \in 1..Len(teamList) |->
     IF teamList[t].id # teamId THEN teamList[t]
     ELSE [teamList[t] EXCEPT
             !.players =
                [i \in 1..Len(teamList[t].players) |->
                   IF teamList[t].players[i].id # playerId THEN teamList[t].players[i]
                   ELSE [teamList[t].players[i] EXCEPT
                           !.stats = applyDelta(@, delta, direction)]]]]

logAction(s, action) ==
  LET t == FindTeam(s.teams, s.selectedTeamId)
      p == IF t = 0 THEN 0 ELSE FindPlayer(s.teams[t].players, s.selectedPlayerId)
  IN  IF t = 0 \/ p = 0 THEN s
      ELSE LET selectedTeam == s.teams[t]
               selectedPlayer == selectedTeam.players[p]
               entry == [teamId |-> selectedTeam.id,
                         playerId |-> selectedPlayer.id,
                         delta |-> action.delta,
                         label |-> selectedTeam.label \o S_Sep \o selectedPlayer.name
                                     \o S_Sep \o action.short]
           IN  Touch([s EXCEPT
                        !.teams = applyToPlayer(s.teams, selectedTeam.id,
                                                selectedPlayer.id, action.delta, 1),
                        !.history = Append(s.history, entry),
                        !.lastAction = entry.label],
                     {"teams", "history"})

\* a variant of undoLastAction that takes the oldest entry
undoLastAction_fifo(s) ==
  IF s.history = <<>> THEN s
  ELSE LET lastEntry == s.history[1] IN
       Touch([s EXCEPT
                !.teams = applyToPlayer(s.teams, lastEntry.teamId, lastEntry.playerId,
                                        lastEntry.delta, -1),
                !.history = SubSeq(s.history, 2, Len(s.history)),
                !.lastAction = S_UndoPrefix \o lastEntry.label],
             {"teams", "history"})

\* variant: the counters are taken back and the entry stays in the history
undoLastAction_keepsEntry(s) ==
  IF s.history = <<>> THEN s
  ELSE LET lastEntry == s.history[Len(s.history)] IN
       Touch([s EXCEPT
                !.teams = applyToPlayer(s.teams, lastEntry.teamId, lastEntry.playerId,
                                        lastEntry.delta, -1),
                !.lastAction = S_UndoPrefix \o lastEntry.label],
             {"teams", "history"})

undoLastAction(s) ==
  IF s.history = <<>> THEN s
  ELSE LET lastEntry == s.history[Len(s.history)] IN
       Touch([s EXCEPT
                !.teams = applyToPlayer(s.teams, lastEntry.teamId, lastEntry.playerId,
                                        lastEntry.delta, -1),
                !.history = SubSeq(s.history, 1, Len(s.history) - 1),
                !.lastAction = S_UndoPrefix \o lastEntry.label],
             {"teams", "history"})

\* a variant of backToSetup that forgets closeShareOptions
backToSetup_keepsSheet(s) ==
  Touch([s EXCEPT !.phase = "setup",
                  !.lastAction = EmptyStr,
                  !.history = <<>>,
                  !.shareStatus = EmptyStr],
        {"history"})

backToSetup(s) ==
  closeShareOptions(
    Touch([s EXCEPT !.phase = "setup",
                    !.lastAction = EmptyStr,
                    !.history = <<>>,
                    !.shareStatus = EmptyStr],
          {"history"}))

(***************************************************************************)
(* Effects.  After a commit React runs, in declaration order, the effects  *)
(* whose dependencies changed between the previous render (prev) and this  *)
(* one (cur); each reads the values of this render and queues updates,     *)
(* which cause a further render, until nothing changes.                    *)
(***************************************************************************)
ReactCells(s) ==
  [s EXCEPT !.touched = {}, !.sharePrepareJobId = 0, !.jobs = {},
            !.shareAttempt = NoAttempt, !.stored = StoredAbsent]

\* variant: the selection is missing from the dependency list
persistDepsChanged_withoutSelection(prev, cur) ==
  \/ prev.phase # cur.phase
  \/ prev.playerCount # cur.playerCount
  \/ prev.setupScoringMode # cur.setupScoringMode
  \/ prev.gameScoringMode # cur.gameScoringMode
  \/ prev.lastAction # cur.lastAction
  \/ cur.touched \cap {"setup", "teams", "history"} # {}

persistDepsChanged(prev, cur) ==
  \/ prev.phase # cur.phase
  \/ prev.playerCount # cur.playerCount
  \/ prev.setupScoringMode # cur.setupScoringMode
  \/ prev.gameScoringMode # cur.gameScoringMode
  \/ prev.selectedTeamId # cur.selectedTeamId
  \/ prev.selectedPlayerId # cur.selectedPlayerId
  \/ prev.lastAction # cur.lastAction
  \/ cur.touched \cap {"setup", "teams", "history"} # {}

invalidateDepsChanged(prev, cur) ==
  \/ cur.touched \cap {"teams", "shareSelection"} # {}
  \/ prev.gameScoringMode # cur.gameScoringMode

syncDepsChanged(prev, cur) == "teams" \in cur.touched

NoSignature == [scoringMode |-> "none", teams |-> <<>>]

PreparedSignature(s) ==
  IF s.preparedShareImage.present THEN s.preparedShareImage.signature ELSE NoSignature

\* isShareOptionsOpen, shareTeams.length, currentShareSignature, the prepared
\* signature, and prepareShareImage, which is rebuilt when the signature, the
\* prepared image or shareTeams (teams, selection) is a new value
prepareDepsChanged(prev, cur) ==
  \/ cur.touched \cap {"teams", "shareSelection", "prepared"} # {}
  \/ prev.isShareOptionsOpen # cur.isShareOptionsOpen
  \/ prev.gameScoringMode # cur.gameScoringMode
  \/ PreparedSignature(prev) # PreparedSignature(cur)

Job(id, signature) == [id |-> id, signature |-> signature]

\* one round of effects over the render cur
runEffects(prev, cur) ==
  LET persisted == IF persistDepsChanged(prev, cur) THEN storedAfterPersist(cur)
                   ELSE cur.stored
      invalidate == invalidateDepsChanged(prev, cur)
      synced == IF syncDepsChanged(prev, cur)
                THEN syncShareSelection(cur.shareSelectionByPlayerId, cur.teams)
                ELSE [changed |-> FALSE, selection |-> cur.shareSelectionByPlayerId]
      prepare == prepareDepsChanged(prev, cur)
      idle == ~cur.isShareOptionsOpen \/ shareTeams(cur) = <<>>
      ready == isShareImageReady(cur)
      start == prepare /\ ~idle /\ ~ready
      prepareJobId == cur.sharePrepareJobId + 1
      errorAfterInvalidate == IF invalidate THEN FALSE ELSE cur.hasSharePrepareError
  IN  [cur EXCEPT
         !.stored = persisted,
         !.preparedShareImage = IF invalidate THEN NoImage ELSE @,
         !.shareSelectionByPlayerId = synced.selection,
         !.isPreparingShareImage = IF ~prepare THEN @ ELSE start,
         !.hasSharePrepareError =
            IF ~prepare THEN errorAfterInvalidate
            ELSE IF idle /\ cur.isShareOptionsOpen THEN errorAfterInvalidate
            ELSE FALSE,
         !.sharePrepareJobId = IF start THEN prepareJobId ELSE @,
         !.jobs = IF start THEN @ \cup {Job(prepareJobId, currentShareSignature(cur))} ELSE @,
         !.touched =
            (IF synced.changed THEN {"shareSelection"} ELSE {})
              \cup (IF invalidate /\ cur.preparedShareImage.present
                    THEN {"prepared"} ELSE {})]

\* (the renders are bound as values, so that each is computed once)
RECURSIVE Settle(_, _)
Settle(prev, cur) ==
  IF ReactCells(prev) = ReactCells(cur) /\ cur.touched = {} THEN cur
  ELSE CHOOSE settled \in
         {Settle(render[1], render[2]) :
            render \in {<<[cur EXCEPT !.touched = {}], runEffects(prev, cur)>>}} : TRUE

(***************************************************************************)
(* Construction: useState initializers over the loaded state, then the     *)
(* effects of the first render (the persist effect writes the snapshot).   *)
(***************************************************************************)
\* the useState initializers over what loadPersistedState returned
initialCells(raw, persistedState) ==
  [phase |-> IF persistedState.ok THEN persistedState.phase ELSE "setup",
   playerCount |-> IF persistedState.ok THEN persistedState.playerCount ELSE 5,
   setupScoringMode |->
     IF persistedState.ok THEN persistedState.setupScoringMode ELSE "twosAndThrees",
   gameScoringMode |->
     IF persistedState.ok THEN persistedState.gameScoringMode ELSE "twosAndThrees",
   setup |-> IF persistedState.ok THEN persistedState.setup ELSE defaultSetup,
   teams |-> IF persistedState.ok THEN persistedState.teams ELSE <<>>,
   selectedTeamId |-> IF persistedState.ok THEN persistedState.selectedTeamId ELSE "A",
   selectedPlayerId |-> IF persistedState.ok THEN persistedState.selectedPlayerId ELSE EmptyStr,
   history |-> IF persistedState.ok THEN persistedState.history ELSE <<>>,
   lastAction |-> IF persistedState.ok THEN persistedState.lastAction ELSE EmptyStr,
   shareStatus |-> EmptyStr,
   preparedShareImage |-> NoImage,
   isSharing |-> FALSE,
   isPreparingShareImage |-> FALSE,
   hasSharePrepareError |-> FALSE,
   shareSelectionByPlayerId |->
     buildDefaultShareSelection(IF persistedState.ok THEN persistedState.teams ELSE <<>>),
   isShareOptionsOpen |-> FALSE,
   sharePrepareJobId |-> 0,
   jobs |-> {},
   shareAttempt |-> NoAttempt,
   stored |-> raw,
   storageFails |-> FALSE,
   touched |-> {}]

\* the first render and its persist effect
firstRender(s) == [s EXCEPT !.stored = storedAfterPersist(s)]

\* the page opened over the stored text raw, on a storage whose writes
\* throw (fails) or succeed
initialStateOn(raw, fails) ==
  CHOOSE rendered \in
    {firstRender([s EXCEPT !.storageFails = fails]) :
       s \in {initialCells(raw, persistedState) :
                 persistedState \in {loadPersistedState(raw)}}} : TRUE

initialState(raw) == initialStateOn(raw, FALSE)

(***************************************************************************)
(* Bookkeeping for the properties (not program state): the handler called  *)
(* last, the stat lines and history before each logged action still in the *)
(* history, what beginEditNames saw, the number of text edits so far, and  *)
(* the stored text the page was opened over.                               *)
(***************************************************************************)
StatsOf(teamList) ==
  [t \in 1..Len(teamList) |->
     [i \in 1..Len(teamList[t].players) |-> teamList[t].players[i].stats]]

NoSnapshot == [taken |-> FALSE]

NotTraced == "-"

\* what is recorded when an asynchronous function resumes
AsyncCalls ==
  {"prepareDone", "prepareDiscarded", "shareImageRendered", "shareImageReused",
   "shareRenderFailed", "shareDelivered", "shareRejected"}

Bookkeeping(name, r) ==
  /\ lastCall' = IF lastCall = NotTraced THEN lastCall ELSE name
  /\ undoStack' =
       CASE name = "logAction" /\ r.history # history ->
              Append(undoStack, [stats |-> StatsOf(teams), history |-> history])
         [] name = "undoLastAction" /\ r.history # history ->
              SubSeq(undoStack, 1, Len(undoStack) - 1)
         [] name \in {"startGame", "backToSetup"} -> <<>>
         [] OTHER -> undoStack
  /\ editSnapshot' =
       CASE name = "beginEditNames" /\ teams # <<>> ->
              [taken |-> TRUE, teams |-> teams, history |-> history,
               selectedTeamId |-> selectedTeamId, selectedPlayerId |-> selectedPlayerId,
               lastAction |-> lastAction, setup |-> setup, staged |-> r.setup,
               edited |-> FALSE]
         [] name \in {"updateTeamLabel", "updatePlayerName"} /\ editSnapshot.taken ->
              [editSnapshot EXCEPT !.edited = @ \/ r.setup # setup]
         [] name \in AsyncCalls -> editSnapshot
         [] OTHER -> NoSnapshot
  /\ edits' = IF name \in {"updateTeamLabel", "updatePlayerName"} THEN edits + 1 ELSE edits
  /\ opened' = opened

\* the commit of a handler's updates, with the effects that follow it
Commit(name, result) ==
  \E render \in {<<State, result>>} : \E r \in {Settle(render[1], render[2])} :
  /\ r.sharePrepareJobId <= MaxJobId
  /\ phase' = r.phase
  /\ playerCount' = r.playerCount
  /\ setupScoringMode' = r.setupScoringMode
  /\ gameScoringMode' = r.gameScoringMode
  /\ setup' = r.setup
  /\ teams' = r.teams
  /\ selectedTeamId' = r.selectedTeamId
  /\ selectedPlayerId' = r.selectedPlayerId
  /\ history' = r.history
  /\ lastAction' = r.lastAction
  /\ shareStatus' = r.shareStatus
  /\ preparedShareImage' = r.preparedShareImage
  /\ isSharing' = r.isSharing
  /\ isPreparingShareImage' = r.isPreparingShareImage
  /\ hasSharePrepareError' = r.hasSharePrepareError
  /\ shareSelectionByPlayerId' = r.shareSelectionByPlayerId
  /\ isShareOptionsOpen' = r.isShareOptionsOpen
  /\ sharePrepareJobId' = r.sharePrepareJobId
  /\ jobs' = r.jobs
  /\ shareAttempt' = r.shareAttempt
  /\ stored' = r.stored
  /\ storageFails' = r.storageFails
  /\ Bookkeeping(name, r)

InitOn(raw, call, fails) ==
  \E s \in {initialStateOn(raw, fails)} :
  /\ phase = s.phase
  /\ playerCount = s.playerCount
  /\ setupScoringMode = s.setupScoringMode
  /\ gameScoringMode = s.gameScoringMode
  /\ setup = s.setup
  /\ teams = s.teams
  /\ selectedTeamId = s.selectedTeamId
  /\ selectedPlayerId = s.selectedPlayerId
  /\ history = s.history
  /\ lastAction = s.lastAction
  /\ shareStatus = s.shareStatus
  /\ preparedShareImage = s.preparedShareImage
  /\ isSharing = s.isSharing
  /\ isPreparingShareImage = s.isPreparingShareImage
  /\ hasSharePrepareError = s.hasSharePrepareError
  /\ shareSelectionByPlayerId = s.shareSelectionByPlayerId
  /\ isShareOptionsOpen = s.isShareOptionsOpen
  /\ sharePrepareJobId = s.sharePrepareJobId
  /\ jobs = s.jobs
  /\ shareAttempt = s.shareAttempt
  /\ stored = s.stored
  /\ storageFails = s.storageFails
  /\ lastCall = call
  /\ undoStack = <<>>
  /\ editSnapshot = NoSnapshot
  /\ edits = 0
  /\ opened = raw

InitWith(raw, call) == InitOn(raw, call, FALSE)

InitFrom(raw) == InitWith(raw, NotTraced)

vars ==
  <<phase, playerCount, setupScoringMode, gameScoringMode, setup, teams,
    selectedTeamId, selectedPlayerId, history, lastAction,
    shareStatus, preparedShareImage, isSharing, isPreparingShareImage,
    hasSharePrepareError, shareSelectionByPlayerId, isShareOptionsOpen,
    sharePrepareJobId, jobs, shareAttempt, stored, storageFails,
    lastCall, undoStack, editSnapshot, edits, opened>>

(***************************************************************************)
(* Inputs of the model.                                                    *)
(***************************************************************************)
TextInputs == {<<" ">>, <<" ", "X", " ">>}

\* the team whose label is typed into, the team whose names are
LabelEditTeams == {"A"}
NameEditTeams == {"B"}

\* the name fields typed into: the first and the last one shown
EditIndexes(count) == {0, count - 1}

\* the player pills clicked: the first MaxSlot players of each team
Targets ==
  {<<teams[t].id, teams[t].players[i].id>> :
     <<t, i>> \in {<<t, i>> \in (1..Len(teams)) \X (1..MaxSlot) :
                     i <= Len(teams[t].players)}}

\* the action buttons pressed: a make (two counters) and an event (one)
LogInputs == {"low-make", "tovf"}

actionButtons ==
  LET all == scoringActions(gameScoringMode)
  IN  {all[a] : a \in {a \in 1..Len(all) : all[a].id \in LogInputs}}

(***************************************************************************)
(* Actions: a control of the rendered view is used.                        *)
(***************************************************************************)
SetPlayerCount ==
  /\ showSetup(State)
  /\ \E count \in {4, 5} : Commit("setPlayerCount", setPlayerCount(State, count))

SetSetupScoringMode ==
  /\ showSetup(State)
  /\ \E mode \in ScoringModes :
       Commit("setSetupScoringMode", setSetupScoringMode(State, mode))

UpdateTeamLabel ==
  /\ showSetup(State) \/ showEditNames(State)
  /\ edits < MaxEdits
  /\ \E teamId \in LabelEditTeams, label \in TextInputs :
       Commit("updateTeamLabel", updateTeamLabel(State, teamId, label))

UpdatePlayerName ==
  /\ showSetup(State) \/ showEditNames(State)
  /\ edits < MaxEdits
  /\ \E teamId \in NameEditTeams, index \in EditIndexes(playerCount), name \in TextInputs :
       Commit("updatePlayerName", updatePlayerName(State, teamId, index, name))

StartGame ==
  /\ showSetup(State)
  /\ Commit("startGame", startGame(State))

BeginEditNames ==
  /\ showGame(State)
  /\ Commit("beginEditNames", beginEditNames(State))

SaveEditedNames ==
  /\ showEditNames(State)
  /\ Commit("saveEditedNames", saveEditedNames(State))

CancelEditNames ==
  /\ showEditNames(State)
  /\ Commit("cancelEditNames", cancelEditNames(State))

OpenShareOptions ==
  /\ showGame(State)
  /\ teams # <<>>
  /\ Commit("openShareOptions", openShareOptions(State))

CloseShareOptions ==
  /\ showGame(State)
  /\ isShareOptionsOpen
  /\ Commit("closeShareOptions", closeShareOptions(State))

SelectPlayerTarget ==
  /\ showGame(State)
  /\ \E target \in Targets :
       Commit("selectPlayerTarget", selectPlayerTarget(State, target[1], target[2]))

LogAction ==
  /\ showGame(State)
  /\ selectedPlayerId # EmptyStr
  /\ Len(history) < MaxHistory
  /\ \E action \in actionButtons : Commit("logAction", logAction(State, action))

UndoLastAction ==
  /\ showGame(State)
  /\ history # <<>>
  /\ Commit("undoLastAction", undoLastAction(State))

BackToSetup ==
  /\ showGame(State)
  /\ Commit("backToSetup", backToSetup(State))

(***************************************************************************)
(* A background preparation ends (prepareInBackground after its await).    *)
(***************************************************************************)
\* variant: the result is written whatever the token
prepareSucceeded_noTokenCheck(s, job) ==
  Touch([s EXCEPT !.jobs = @ \ {job},
                  !.preparedShareImage = Image(job.signature),
                  !.hasSharePrepareError = FALSE,
                  !.isPreparingShareImage = FALSE],
        {"prepared"})

prepareSucceeded(s, job) ==
  LET done == [s EXCEPT !.jobs = @ \ {job}] IN
  IF s.sharePrepareJobId # job.id THEN done
  ELSE Touch([done EXCEPT !.preparedShareImage = Image(job.signature),
                          !.hasSharePrepareError = FALSE,
                          !.isPreparingShareImage = FALSE],
             {"prepared"})

prepareFailed(s, job) ==
  LET done == [s EXCEPT !.jobs = @ \ {job}] IN
  IF s.sharePrepareJobId # job.id THEN done
  ELSE [done EXCEPT !.hasSharePrepareError = TRUE,
                    !.isPreparingShareImage = FALSE]

PrepareSucceeds ==
  \E job \in jobs :
    Commit(IF job.id = sharePrepareJobId THEN "prepareDone" ELSE "prepareDiscarded",
           prepareSucceeded(State, job))

PrepareFails ==
  \E job \in jobs :
    Commit(IF job.id = sharePrepareJobId THEN "prepareDone" ELSE "prepareDiscarded",
           prepareFailed(State, job))

(***************************************************************************)
(* The share sheet: ways of closing it, the selection, and a share attempt *)
(* (shareBoxScore and what it awaits).                                     *)
(***************************************************************************)
\* the players whose checkbox is used: the first of each team
ToggleTargets == {PlayerIdOf(teamId, 1) : teamId \in TeamIdSet}

EscapeKey ==
  /\ isShareOptionsOpen
  /\ Commit("handleKeyDown", handleKeyDown(State, "Escape"))

DragDismiss ==
  /\ isShareOptionsOpen
  /\ Commit("dragDismiss", dismissShareOptions(State))

ToggleSharePlayer ==
  /\ showGame(State)
  /\ isShareOptionsOpen
  /\ \E playerId \in ToggleTargets \cap PlayerIds(teams) :
       Commit("toggleSharePlayer", toggleSharePlayer(State, playerId))

SetShareSelectionForAllPlayers ==
  /\ showGame(State)
  /\ isShareOptionsOpen
  /\ \E isSelected \in BOOLEAN :
       Commit("setShareSelectionForAllPlayers",
              setShareSelectionForAllPlayers(State, isSelected))

SetShareSelectionForTeamOnly ==
  /\ showGame(State)
  /\ isShareOptionsOpen
  /\ \E t \in 1..Len(teams) :
       Commit("setShareSelectionForTeamOnly",
              setShareSelectionForTeamOnly(State, teams[t].id))

ShareFromShareOptions ==
  /\ showGame(State)
  /\ isShareOptionsOpen
  /\ isSheetShareReady(State)
  /\ Commit("shareFromShareOptions", shareFromShareOptions(State))

ShareImageRendered ==
  /\ shareAttempt.active
  /\ shareAttempt.stage = "render"
  /\ \E canShare \in BOOLEAN :
       Commit("shareImageRendered", shareImageRendered(State, canShare))

ShareImageReused ==
  /\ shareAttempt.active
  /\ shareAttempt.stage = "reuse"
  /\ \E canShare \in BOOLEAN :
       Commit("shareImageReused", shareImageReused(State, canShare))

ShareRenderFails ==
  /\ shareAttempt.active
  /\ shareAttempt.stage = "render"
  /\ Commit("shareRenderFailed", shareRenderFailed(State))

ShareDelivered ==
  /\ shareAttempt.active
  /\ shareAttempt.stage = "share"
  /\ Commit("shareDelivered", shareDelivered(State))

ShareRejected ==
  /\ shareAttempt.active
  /\ shareAttempt.stage = "share"
  /\ \E lostActivation \in BOOLEAN :
       Commit("shareRejected", shareRejected(State, lostActivation))

(***************************************************************************)
(* Spec: a first run (nothing stored) in which the user sets up, plays,    *)
(* renames and resets; the share sheet stays closed.                       *)
(***************************************************************************)
Init == InitFrom(StoredAbsent)

Next ==
  \/ SetPlayerCount
  \/ SetSetupScoringMode
  \/ UpdateTeamLabel
  \/ UpdatePlayerName
  \/ StartGame
  \/ BeginEditNames
  \/ SaveEditedNames
  \/ CancelEditNames
  \/ SelectPlayerTarget
  \/ LogAction
  \/ UndoLastAction
  \/ BackToSetup

Spec == Init /\ [][Next]_vars

(***************************************************************************)
(* SpecSheet: a first run with the default setup in which the user plays,  *)
(* resets and uses the share sheet while background preparations run.      *)
(***************************************************************************)
NextSheet ==
  \/ StartGame
  \/ SelectPlayerTarget
  \/ LogAction
  \/ UndoLastAction
  \/ BeginEditNames
  \/ CancelEditNames
  \/ BackToSetup
  \/ OpenShareOptions
  \/ CloseShareOptions
  \/ PrepareSucceeds
  \/ PrepareFails

SpecSheet == Init /\ [][NextSheet]_vars

(***************************************************************************)
(* Stored documents: what the storage key may hold when the page opens.    *)
(***************************************************************************)
S_big == <<"b">>
S_neg == <<"n">>
S_padded == <<" ", "X", " ">>

\* 7: JSON, but no object
DocNotObject == StoredJson(JNum(7))

\* []: an array passes isRecord, every field falls back
DocArray == StoredJson(JArr(<<>>))

\* {"phase":"game","teams":[{"id":"B","players":[{}]}]}
DocOneTeam ==
  StoredJson(JObj([phase |-> JStr(S_game),
                   teams |-> JArr(<<JObj([id |-> JStr(<<"B">>),
                                          players |-> JArr(<<EmptyObj>>)])>>)]))

\* {"phase":"game","teams":[{"id":"B","players":[]}]}
DocNoPlayers ==
  StoredJson(JObj([phase |-> JStr(S_game),
                   teams |-> JArr(<<JObj([id |-> JStr(<<"B">>),
                                          players |-> JArr(<<>>)])>>)]))

\* {"phase":"editNames","teams":[7,null]}
DocNonObjectTeams ==
  StoredJson(JObj([phase |-> JStr(S_editNames), teams |-> JArr(<<JNum(7), JNull>>)]))

\* a game whose first player has a negative, an unknown, a text, an
\* overflowing and a positive counter, and whose history holds a negative
\* delta (with an unknown key) and a large one
DocBadStats ==
  StoredJson(JObj(
    [phase |-> JStr(S_game),
     teams |->
       JArr(<<JObj([id |-> JStr(<<"A">>),
                    players |->
                      JArr(<<JObj([id |-> JStr(PlayerIdOf("A", 1)),
                                   stats |-> JObj([ast |-> JNum(-3),
                                                   points |-> JNum(9),
                                                   lowPA |-> JStr(<<"2">>),
                                                   lowPM |-> JNonFinite,
                                                   tovf |-> JNum(2)])])>>)]),
              JObj([id |-> JStr(<<"B">>), players |-> JArr(<<EmptyObj>>)])>>),
     history |->
       JArr(<<JObj([teamId |-> JStr(<<"A">>), playerId |-> JStr(PlayerIdOf("A", 1)),
                    delta |-> JObj([ast |-> JNum(-2), points |-> JNum(-2)]), label |-> JStr(S_neg)]),
              JObj([teamId |-> JStr(<<"A">>), playerId |-> JStr(PlayerIdOf("A", 1)),
                    delta |-> JObj([tovf |-> JNum(5)]), label |-> JStr(S_big)])>>)]))

\* the setup screen over what an earlier game left: a one-team roster with
\* scores, a history, a last action, padded staging texts, four players,
\* differing scoring modes
DocPreviousGame ==
  StoredJson(JObj(
    [phase |-> JStr(S_setup),
     playerCount |-> JNum(4),
     setupScoringMode |-> JStr(S_onesAndTwos),
     gameScoringMode |-> JStr(S_twosAndThrees),
     setup |-> JObj([A |-> JObj([label |-> JStr(S_padded),
                                 names |-> JArr(<<JStr(S_padded), JStr(<<" ">>)>>)]),
                     B |-> JNum(7)]),
     teams |->
       JArr(<<JObj([id |-> JStr(<<"B">>),
                    players |->
                      JArr(<<JObj([id |-> JStr(<<"z">>),
                                   stats |-> JObj([reb |-> JNum(4)])])>>)])>>),
     selectedTeamId |-> JStr(<<"B">>),
     selectedPlayerId |-> JStr(<<"z">>),
     history |->
       JArr(<<JObj([teamId |-> JStr(<<"B">>), playerId |-> JStr(<<"z">>),
                    delta |-> JObj([reb |-> JNum(4)]), label |-> JStr(S_big)])>>),
     lastAction |-> JStr(S_big)]))

\* the text the program itself wrote after Start Game and one logged action
DocWritten ==
  persistState(logAction(startGame(initialState(StoredAbsent)),
                         scoringActions("twosAndThrees")[1]))

StoredDocs ==
  {StoredAbsent, StoredEmpty, StoredGarbage, DocNotObject, DocArray, DocOneTeam,
   DocNoPlayers, DocNonObjectTeams, DocBadStats, DocPreviousGame, DocWritten}

(***************************************************************************)
(* SpecLoad: the page opens over any of the stored documents, and the user *)
(* plays, renames and resets.                                              *)
(***************************************************************************)
InitLoad == \E raw \in StoredDocs : InitFrom(raw)

NextLoad ==
  \/ StartGame
  \/ SelectPlayerTarget
  \/ LogAction
  \/ UndoLastAction
  \/ BeginEditNames
  \/ SaveEditedNames
  \/ CancelEditNames
  \/ BackToSetup

SpecLoad == InitLoad /\ [][NextLoad]_vars

(***************************************************************************)
(* SpecDirect: the handlers whose first statement is a guard are called in *)
(* any state, whether or not the view of that state offers their control;  *)
(* lastCall records the handler called.                                    *)
(***************************************************************************)
DirectLogAction ==
  /\ Len(history) < MaxHistory
  /\ \E action \in actionButtons : Commit("logAction", logAction(State, action))

DirectUndoLastAction == Commit("undoLastAction", undoLastAction(State))

DirectBeginEditNames == Commit("beginEditNames", beginEditNames(State))

DirectOpenShareOptions == Commit("openShareOptions", openShareOptions(State))

InitDirect == \E raw \in {StoredAbsent, DocNoPlayers} : InitWith(raw, "init")

NextDirect ==
  \/ DirectLogAction
  \/ DirectUndoLastAction
  \/ DirectBeginEditNames
  \/ DirectOpenShareOptions
  \/ StartGame
  \/ SelectPlayerTarget
  \/ CancelEditNames
  \/ BackToSetup

SpecDirect == InitDirect /\ [][NextDirect]_vars

(***************************************************************************)
(* SpecShare: a first run with the default setup in which the user plays   *)
(* and uses the share sheet: selects players, closes the sheet in every    *)
(* way, and shares, while preparations and share attempts are in flight;   *)
(* lastCall records the handler or continuation that ran last.             *)
(***************************************************************************)
InitShare == InitWith(StoredAbsent, "init")

NextShare ==
  \/ StartGame
  \/ LogAction
  \/ BeginEditNames
  \/ CancelEditNames
  \/ BackToSetup
  \/ OpenShareOptions
  \/ CloseShareOptions
  \/ EscapeKey
  \/ DragDismiss
  \/ ToggleSharePlayer
  \/ SetShareSelectionForAllPlayers
  \/ SetShareSelectionForTeamOnly
  \/ ShareFromShareOptions
  \/ ShareImageRendered
  \/ ShareImageReused
  \/ ShareRenderFails
  \/ ShareDelivered
  \/ ShareRejected
  \/ PrepareSucceeds
  \/ PrepareFails

SpecShare == InitShare /\ [][NextShare]_vars

(***************************************************************************)
(* SpecShareDirect: SpecShare where, besides, shareBoxScore and            *)
(* shareFromShareOptions are called in any state, whether or not the view  *)
(* of that state offers the share control.                                 *)
(***************************************************************************)
DirectShareBoxScore == Commit("shareBoxScore", shareBoxScore(State, State))

DirectShareFromShareOptions ==
  Commit("shareFromShareOptions", shareFromShareOptions(State))

NextShareDirect ==
  \/ StartGame
  \/ LogAction
  \/ BackToSetup
  \/ OpenShareOptions
  \/ CloseShareOptions
  \/ SetShareSelectionForAllPlayers
  \/ DirectShareBoxScore
  \/ DirectShareFromShareOptions
  \/ ShareImageRendered
  \/ ShareImageReused
  \/ ShareRenderFails
  \/ ShareDelivered
  \/ ShareRejected
  \/ PrepareSucceeds
  \/ PrepareFails

SpecShareDirect == InitShare /\ [][NextShareDirect]_vars

(***************************************************************************)
(* SpecShareLive: SpecShare where every call of the renderer comes to an   *)
(* end: a background preparation resolves or rejects, and so does the      *)
(* prepareShareImage call awaited by a share attempt.  The user's steps    *)
(* and the answer to the system share dialog carry no such condition.      *)
(***************************************************************************)
SpecShareLive ==
  /\ InitShare
  /\ [][NextShare]_vars
  /\ WF_vars(PrepareSucceeds \/ PrepareFails)
  /\ WF_vars(ShareImageRendered \/ ShareRenderFails \/ ShareImageReused)

(***************************************************************************)
(* SpecScore: a first run in which the user picks the team size and the    *)
(* scoring mode, starts, and logs and undoes shots of both values.         *)
(***************************************************************************)
ShotInputs == {"low-make", "low-miss", "high-make", "high-miss"}

shotButtons ==
  {scoringActions(gameScoringMode)[a] :
     a \in {b \in 1..Len(scoringActions(gameScoringMode)) :
              scoringActions(gameScoringMode)[b].id \in ShotInputs}}

LogShot ==
  /\ showGame(State)
  /\ selectedPlayerId # EmptyStr
  /\ Len(history) < MaxHistory
  /\ \E action \in shotButtons : Commit("logAction", logAction(State, action))

NextScore ==
  \/ SetPlayerCount
  \/ SetSetupScoringMode
  \/ StartGame
  \/ SelectPlayerTarget
  \/ LogShot
  \/ UndoLastAction

SpecScore == InitWith(StoredAbsent, "init") /\ [][NextScore]_vars

(***************************************************************************)
(* SpecOpen: the page opens over a stored document, on a storage whose     *)
(* writes succeed or throw, and the user plays a game; lastCall is "init"  *)
(* until the first handler runs and opened keeps the document found.       *)
(***************************************************************************)
\* null
DocNull == StoredJson(JNull)

\* "game": JSON text, but no object
DocText == StoredJson(JStr(S_game))

\* {"phase":"game","teams":[]}
DocGameNoTeams == StoredJson(JObj([phase |-> JStr(S_game), teams |-> JArr(<<>>)]))

\* {"phase":"editNames","playerCount":4,"lastAction":"b"}
DocEditNamesNoTeams ==
  StoredJson(JObj([phase |-> JStr(S_editNames), playerCount |-> JNum(4),
                   lastAction |-> JStr(S_big)]))

\* {"phase":"over","teams":[{"id":"A","players":[{}]},{"id":"B","players":[{}]}]}
DocUnknownPhase ==
  StoredJson(JObj(
    [phase |-> JStr(<<"o", "v", "e", "r">>),
     teams |-> JArr(<<JObj([id |-> JStr(<<"A">>), players |-> JArr(<<EmptyObj>>)]),
                      JObj([id |-> JStr(<<"B">>), players |-> JArr(<<EmptyObj>>)])>>)]))

\* {"phase":2,"teams":[{"id":"A","players":[{}]}]}
DocNumericPhase ==
  StoredJson(JObj(
    [phase |-> JNum(2),
     teams |-> JArr(<<JObj([id |-> JStr(<<"A">>), players |-> JArr(<<EmptyObj>>)])>>)]))

\* a game of A-1 and B-1 whose recorded selection is team B and player A-1
DocStaleSelection ==
  StoredJson(JObj(
    [phase |-> JStr(S_game),
     teams |-> JArr(<<JObj([id |-> JStr(<<"A">>),
                            players |-> JArr(<<JObj([id |-> JStr(PlayerIdOf("A", 1))])>>)]),
                      JObj([id |-> JStr(<<"B">>),
                            players |-> JArr(<<JObj([id |-> JStr(PlayerIdOf("B", 1))])>>)])>>),
     selectedTeamId |-> JStr(<<"B">>),
     selectedPlayerId |-> JStr(PlayerIdOf("A", 1))]))

\* a game of team B alone, B-1 and B-2, whose recorded selection is team A
\* and player B-2
DocSelectionOtherTeam ==
  StoredJson(JObj(
    [phase |-> JStr(S_game),
     teams |-> JArr(<<JObj([id |-> JStr(<<"B">>),
                            players |-> JArr(<<JObj([id |-> JStr(PlayerIdOf("B", 1))]),
                                               JObj([id |-> JStr(PlayerIdOf("B", 2))])>>)])>>),
     selectedTeamId |-> JStr(<<"A">>),
     selectedPlayerId |-> JStr(PlayerIdOf("B", 2))]))

\* a game whose teams array holds, in this order: team B, team B again, a
\* team without id, team A, and another team without id
DocShuffledTeams ==
  StoredJson(JObj(
    [phase |-> JStr(S_game),
     teams |-> JArr(<<JObj([id |-> JStr(<<"B">>), label |-> JStr(<<"b", "1">>),
                            players |-> JArr(<<EmptyObj>>)]),
                      JObj([id |-> JStr(<<"B">>), label |-> JStr(<<"b", "2">>)]),
                      JObj([label |-> JStr(<<"n", "1">>)]),
                      JObj([id |-> JStr(<<"A">>), label |-> JStr(<<"a", "1">>)]),
                      JObj([id |-> JNum(1), label |-> JStr(<<"n", "2">>)])>>)]))

\* a game of A-1 whose history array holds a number, an entry of team C, an
\* entry of team B whose delta has a finite, an overflowing, a text and an
\* unknown value, null, and an entry of team A whose delta is a number
DocMixedHistory ==
  StoredJson(JObj(
    [phase |-> JStr(S_game),
     teams |-> JArr(<<JObj([id |-> JStr(<<"A">>),
                            players |-> JArr(<<JObj([id |-> JStr(PlayerIdOf("A", 1))])>>)])>>),
     history |->
       JArr(<<JNum(7),
              JObj([teamId |-> JStr(<<"C">>), playerId |-> JStr(PlayerIdOf("A", 1)),
                    delta |-> JObj([ast |-> JNum(1)])]),
              JObj([teamId |-> JStr(<<"B">>), playerId |-> JNum(3),
                    delta |-> JObj([ast |-> JNum(1), lowPM |-> JNonFinite,
                                    reb |-> JStr(<<"2">>), points |-> JNum(4)])]),
              JNull,
              JObj([teamId |-> JStr(<<"A">>), playerId |-> JStr(PlayerIdOf("A", 1)),
                    delta |-> JNum(7), label |-> JStr(S_big)])>>)]))

\* a game of A-1 whose history is an object and no array
DocHistoryNotList ==
  StoredJson(JObj(
    [phase |-> JStr(S_game),
     teams |-> JArr(<<JObj([id |-> JStr(<<"A">>),
                            players |-> JArr(<<JObj([id |-> JStr(PlayerIdOf("A", 1))])>>)])>>),
     history |-> JObj([teamId |-> JStr(<<"A">>)])]))

\* a game of team A whose first player is recorded with the id A-2 and
\* whose second player has no id
DocTwinPlayers ==
  StoredJson(JObj(
    [phase |-> JStr(S_game),
     teams |-> JArr(<<JObj([id |-> JStr(<<"A">>),
                            players |-> JArr(<<JObj([id |-> JStr(PlayerIdOf("A", 2))]),
                                               EmptyObj>>)])>>)]))

OpenedDocs ==
  StoredDocs \cup {DocTwinPlayers, DocShuffledTeams, DocMixedHistory, DocHistoryNotList, DocNull, DocText, DocGameNoTeams, DocEditNamesNoTeams,
                   DocUnknownPhase, DocNumericPhase, DocStaleSelection,
                   DocSelectionOtherTeam}

InitOpen == \E raw \in OpenedDocs : \E fails \in BOOLEAN : InitOn(raw, "init", fails)

NextOpen ==
  \/ UpdateTeamLabel
  \/ StartGame
  \/ SelectPlayerTarget
  \/ LogAction
  \/ UndoLastAction
  \/ BackToSetup

SpecOpen == InitOpen /\ [][NextOpen]_vars

(***************************************************************************)
(* Properties.                                                             *)
(***************************************************************************)
\* some counter of the roster is above zero
SomeScore ==
  \E t \in 1..Len(teams) : \E i \in 1..Len(teams[t].players) : \E statKey \in StatKeySet :
    teams[t].players[i].stats[statKey] > 0

StartsWith(s, prefix) == Len(s) >= Len(prefix) /\ SubSeq(s, 1, Len(prefix)) = prefix

DeltaAt(delta, statKey) == IF statKey \in DOMAIN delta THEN delta[statKey] ELSE 0

\* the selected (team, player) names a player of the roster
Resolvable ==
  LET t == FindTeam(teams, selectedTeamId)
  IN  t # 0 /\ FindPlayer(teams[t].players, selectedPlayerId) # 0

\* the roster next has the teams, players, ids, labels and names of the roster now
SameRosterShape(now, next) ==
  /\ Len(next) = Len(now)
  /\ \A t \in 1..Len(now) :
       /\ next[t].id = now[t].id
       /\ Len(next[t].players) = Len(now[t].players)
       /\ \A i \in 1..Len(now[t].players) : next[t].players[i].id = now[t].players[i].id

SameNames(now, next) ==
  \A t \in 1..Len(now) :
    /\ next[t].label = now[t].label
    /\ \A i \in 1..Len(now[t].players) : next[t].players[i].name = now[t].players[i].name

\* C1: undoLastAction after N logged actions leaves every player's stat line
\* and the history equal to what they were after the first N-1 actions (the
\* top of undoStack: what the N-th logAction found).
C1_UndoRestores ==
  [][UndoLastAction =>
       /\ undoStack # <<>>
       /\ StatsOf(teams') = undoStack[Len(undoStack)].stats
       /\ history' = undoStack[Len(undoStack)].history]_vars

\* two actions were logged and the second was undone
C1_Witness ==
  /\ Len(history) = 1
  /\ Len(undoStack) = 1
  /\ StartsWith(lastAction, S_UndoPrefix)
  /\ StatsOf(teams) # undoStack[1].stats

\* C2: every stat counter of every player is >= 0 in every reachable state,
\* whatever document was loaded and whatever was logged or undone since.
C2_CountersNonNegative ==
  \A t \in 1..Len(teams) : \A i \in 1..Len(teams[t].players) : \A statKey \in StatKeySet :
    teams[t].players[i].stats[statKey] >= 0

\* the loaded entry with the delta larger than the counter was undone, and
\* the entry with the negative delta remains
C2_Witness ==
  /\ lastAction = S_UndoPrefix \o S_big
  /\ Len(history) = 1
  /\ history[1].delta = [ast |-> -2]
  /\ teams[1].players[1].stats["tovf"] = 0

\* C3: logAction with a resolvable selected player adds the action's delta to
\* that player's stat line only; the other stat lines, all names, labels and
\* ids, the selection and the phase are unchanged; one entry {selected team,
\* selected player, the delta, label} is appended to history; lastAction
\* becomes that entry's label.
C3_LogEffect(action) ==
  LET t == FindTeam(teams, selectedTeamId)
      p == FindPlayer(teams[t].players, selectedPlayerId)
      entry == history'[Len(history')]
  IN  /\ SameRosterShape(teams, teams')
      /\ SameNames(teams, teams')
      /\ \A u \in 1..Len(teams) : \A i \in 1..Len(teams[u].players) :
           teams'[u].players[i].stats =
             IF u = t /\ i = p
             THEN [statKey \in StatKeySet |->
                     teams[u].players[i].stats[statKey] + DeltaAt(action.delta, statKey)]
             ELSE teams[u].players[i].stats
      /\ selectedTeamId' = selectedTeamId
      /\ selectedPlayerId' = selectedPlayerId
      /\ phase' = phase
      /\ Len(history') = Len(history) + 1
      /\ SubSeq(history', 1, Len(history)) = history
      /\ entry.teamId = selectedTeamId
      /\ entry.playerId = selectedPlayerId
      /\ entry.delta = action.delta
      /\ lastAction' = entry.label

C4_UndoEffect ==
  LET entry == history[Len(history)] IN
  /\ history' = SubSeq(history, 1, Len(history) - 1)
  /\ lastAction' = S_UndoPrefix \o entry.label
  /\ SameRosterShape(teams, teams')
  /\ SameNames(teams, teams')
  /\ \A t \in 1..Len(teams) : \A i \in 1..Len(teams[t].players) :
       teams'[t].players[i].stats =
         IF teams[t].id = entry.teamId /\ teams[t].players[i].id = entry.playerId
         THEN [statKey \in StatKeySet |->
                 Max(0, teams[t].players[i].stats[statKey] - DeltaAt(entry.delta, statKey))]
         ELSE teams[t].players[i].stats

C4_HistoryLifo ==
  [][/\ \/ history' = history
        \/ /\ LogAction
           /\ Len(history') = Len(history) + 1
           /\ SubSeq(history', 1, Len(history)) = history
        \/ /\ UndoLastAction
           /\ history' = SubSeq(history, 1, Len(history) - 1)
        \/ /\ StartGame \/ BackToSetup
           /\ history' = <<>>
     /\ UndoLastAction => C4_UndoEffect]_vars

\* of two different entries the later one was undone
C4_Witness ==
  /\ Len(history) = 1
  /\ StartsWith(lastAction, S_UndoPrefix)
  /\ lastAction # S_UndoPrefix \o history[1].label
  /\ Len(undoStack) = 1

\* C5: logAction when the selection does not resolve to a player,
\* undoLastAction when history is empty, and beginEditNames and
\* openShareOptions when there are no teams leave teams, history, the
\* selection, lastAction and the phase unchanged.
C5_GuardedNoOps ==
  [][(\/ ~Resolvable /\ DirectLogAction
      \/ history = <<>> /\ DirectUndoLastAction
      \/ teams = <<>> /\ DirectBeginEditNames
      \/ teams = <<>> /\ DirectOpenShareOptions)
     => UNCHANGED <<teams, history, selectedTeamId, selectedPlayerId, lastAction, phase>>]_vars

\* beginEditNames was called on the setup screen of a first run
C5_Witness == lastCall = "beginEditNames" /\ teams = <<>> /\ phase = "setup"

\* C6: startGame yields teams A then B, each with playerCount (4 or 5)
\* players with ids "{teamId}-{slot}", the trimmed label (or "Team {id}"),
\* the trimmed names (or "P{slot}") and zero counters; it empties history,
\* sets lastAction to "Game started.", selects A-1, copies setupScoringMode
\* to gameScoringMode, includes every player in the share selection and sets
\* the phase to game, whatever roster, history and selection it found.
C6_Seeded ==
  /\ playerCount \in {4, 5}
  /\ Len(teams') = 2
  /\ teams'[1].id = "A"
  /\ teams'[2].id = "B"
  /\ \A t \in 1..2 :
       LET id == teams'[t].id
           label == Trim(setup[id].label)
       IN  /\ teams'[t].label = IF label = <<>> THEN <<"T", "e", "a", "m", " ", id>> ELSE label
           /\ Len(teams'[t].players) = playerCount
           /\ \A slot \in 1..playerCount :
                LET player == teams'[t].players[slot]
                    name == Trim(setup[id].names[slot])
                IN  /\ player.id = <<id, "-", Digit(slot)>>
                    /\ player.name = IF name = <<>> THEN <<"P", Digit(slot)>> ELSE name
                    /\ \A statKey \in StatKeySet : player.stats[statKey] = 0
  /\ history' = <<>>
  /\ lastAction' = S_GameStarted
  /\ selectedTeamId' = "A"
  /\ selectedPlayerId' = <<"A", "-", "1">>
  /\ gameScoringMode' = setupScoringMode
  /\ DOMAIN shareSelectionByPlayerId' = PlayerIds(teams')
  /\ \A id \in PlayerIds(teams') : shareSelectionByPlayerId'[id]
  /\ phase' = "game"

C6_StartGameSeeds == [][StartGame => C6_Seeded]_vars

\* a game of four started over the roster, history and padded staging texts
\* an earlier game left
C6_Witness ==
  /\ phase = "game"
  /\ lastAction = S_GameStarted
  /\ playerCount = 4
  /\ gameScoringMode = "onesAndTwos"
  /\ teams[1].label = <<"X">>
  /\ teams[1].players[1].name = <<"X">>
  /\ teams[1].players[2].name = <<"P", "2">>
  /\ teams[2].label = <<"T", "e", "a", "m", " ", "B">>

\* C7: saveEditedNames changes only team labels and player names: every
\* player's id, stat line and position, each team's id and player count, the
\* history and the selected target are unchanged, and the phase becomes game.
C7_SaveKeepsScores ==
  [][SaveEditedNames =>
       /\ SameRosterShape(teams, teams')
       /\ StatsOf(teams') = StatsOf(teams)
       /\ history' = history
       /\ selectedTeamId' = selectedTeamId
       /\ selectedPlayerId' = selectedPlayerId
       /\ phase' = "game"]_vars

\* names were saved over a game that has a renamed team and a logged action
C7_Witness ==
  /\ phase = "game"
  /\ lastAction = S_NamesUpdated
  /\ teams[1].label = <<"X">>
  /\ history # <<>>
  /\ SomeScore

\* C8: after beginEditNames, staged edits and cancelEditNames, the phase is
\* game, teams, history, selection and lastAction equal their values before
\* beginEditNames, and the setup staging data holds none of the edits: it is
\* what it was before beginEditNames or what beginEditNames staged.
C8_CancelDiscards ==
  [][CancelEditNames =>
       /\ editSnapshot.taken
       /\ phase' = "game"
       /\ teams' = editSnapshot.teams
       /\ history' = editSnapshot.history
       /\ selectedTeamId' = editSnapshot.selectedTeamId
       /\ selectedPlayerId' = editSnapshot.selectedPlayerId
       /\ lastAction' = editSnapshot.lastAction
       /\ setup' \in {editSnapshot.setup, editSnapshot.staged}]_vars

\* C9: backToSetup sets the phase to setup, empties history, clears
\* lastAction and the share status, closes the share view, and leaves the
\* setup staging data of both teams unchanged.
C9_BackToSetup ==
  [][BackToSetup =>
       /\ phase' = "setup"
       /\ history' = <<>>
       /\ lastAction' = EmptyStr
       /\ shareStatus' = EmptyStr
       /\ ~isShareOptionsOpen'
       /\ setup' = setup]_vars

\* Reset was pressed while the share view was preparing an image of a game
\* with a logged action
C9_Witness ==
  /\ phase = "setup"
  /\ teams # <<>>
  /\ jobs # {}
  /\ SomeScore
  /\ ~isShareOptionsOpen

\* C10: in every reachable state whose phase is game or editNames, the
\* roster is exactly two teams with ids A and B.
C10_TwoTeamsInPlay ==
  phase \in {"game", "editNames"} =>
    /\ Len(teams) = 2
    /\ teams[1].id = "A"
    /\ teams[2].id = "B"

\* C11: in every reachable state whose phase is setup the roster is empty,
\* in memory and in the stored snapshot.
C11_NoTeamsInSetup ==
  phase = "setup" =>
    /\ teams = <<>>
    /\ stored.kind = "snapshot" => stored.state.teams = <<>>

\* C12: for every state reached through the handlers, loading the snapshot
\* that persistState writes for it yields a state, and that state agrees with
\* it on phase, playerCount, both scoring modes, setup, teams, the selection,
\* history and lastAction.
C12_RoundTrip ==
  LET loaded == loadPersistedState(persistState(State)) IN
  /\ loaded.ok
  /\ loaded.phase = phase
  /\ loaded.playerCount = playerCount
  /\ loaded.setupScoringMode = setupScoringMode
  /\ loaded.gameScoringMode = gameScoringMode
  /\ loaded.setup = setup
  /\ loaded.teams = teams
  /\ loaded.selectedTeamId = selectedTeamId
  /\ loaded.selectedPlayerId = selectedPlayerId
  /\ loaded.history = history
  /\ loaded.lastAction = lastAction

\* a game of four a side in ones-and-twos with a padded team label typed
\* into the setup form, a full history, and team B's player selected
C12_Witness ==
  /\ phase = "game"
  /\ playerCount = 4
  /\ gameScoringMode = "onesAndTwos"
  /\ setup.A.label = <<" ", "X", " ">>
  /\ Len(history) = MaxHistory
  /\ selectedTeamId = "B"
  /\ stored = persistState(State)

\* the stored value is absent, empty, not parseable, or parses to a value
\* that is no object
Unusable(raw) ==
  \/ raw.kind \in {"absent", "empty", "garbage"}
  \/ raw.kind = "json" /\ raw.value.t \notin {"obj", "arr"}

\* C13: when the stored value is absent, empty, not parseable or no object,
\* the page starts from the defaults: phase setup, five players, both modes
\* twosAndThrees, the default setup (labels "Team A" and "Team B", five
\* empty names each), no teams, team A selected with no player, an empty
\* history and an empty lastAction.
C13_NoPriorState ==
  lastCall = "init" /\ Unusable(opened) =>
    /\ phase = "setup"
    /\ playerCount = 5
    /\ setupScoringMode = "twosAndThrees"
    /\ gameScoringMode = "twosAndThrees"
    /\ setup = [A |-> [label |-> <<"T", "e", "a", "m", " ", "A">>,
                       names |-> [i \in 1..5 |-> <<>>]],
                B |-> [label |-> <<"T", "e", "a", "m", " ", "B">>,
                       names |-> [i \in 1..5 |-> <<>>]]]
    /\ teams = <<>>
    /\ selectedTeamId = "A"
    /\ selectedPlayerId = <<>>
    /\ history = <<>>
    /\ lastAction = <<>>

\* the page has just opened over JSON text that is no object
C13_Witness ==
  /\ lastCall = "init"
  /\ opened = DocText
  /\ phase = "setup"
  /\ stored.kind = "snapshot"

\* C14: a page that has just loaded a state without teams is in phase
\* setup whatever phase was recorded, and so is a page that has just loaded
\* a state whose recorded phase is none of setup, game, editNames.
C14_PhaseCoercion ==
  lastCall = "init" =>
    /\ teams = <<>> => phase = "setup"
    /\ ~Unusable(opened) /\ ~isPhase(Get(ParsedValue(opened), "phase")) => phase = "setup"

\* the page has just opened over a recorded game without teams
C14_Witness ==
  /\ lastCall = "init"
  /\ opened = DocGameNoTeams
  /\ teams = <<>>
  /\ phase = "setup"

C15_WitnessWriteFails ==
  /\ storageFails
  /\ opened = StoredAbsent
  /\ phase = "game"
  /\ history # <<>>
  /\ SomeScore
  /\ stored = StoredAbsent

RECURSIVE KeepIncluded(_, _)
KeepIncluded(players, selection) ==
  IF players = <<>> THEN <<>>
  ELSE (IF Head(players).id \in DOMAIN selection /\ ~selection[Head(players).id]
        THEN <<>> ELSE <<Head(players)>>)
         \o KeepIncluded(Tail(players), selection)

\* the teams of a list cut down to their included players, in order,
\* without the teams left with no player
RECURSIVE Shareable(_, _)
Shareable(teamList, selection) ==
  IF teamList = <<>> THEN <<>>
  ELSE (IF KeepIncluded(Head(teamList).players, selection) = <<>> THEN <<>>
        ELSE << [id |-> Head(teamList).id,
                 label |-> Head(teamList).label,
                 players |-> KeepIncluded(Head(teamList).players, selection)] >>)
         \o Shareable(Tail(teamList), selection)

\* C16: the shareable roster is the team list with every player whose flag
\* is FALSE removed (a player without a flag stays), the order of teams and
\* players kept, and every team left without players removed.
C16_ShareableRoster ==
  /\ shareTeams(State) = Shareable(teams, shareSelectionByPlayerId)
  /\ \A t \in 1..Len(shareTeams(State)) : shareTeams(State)[t].players # <<>>
  /\ PlayerIds(shareTeams(State)) =
       {id \in PlayerIds(teams) :
          id \notin DOMAIN shareSelectionByPlayerId \/ shareSelectionByPlayerId[id]}
  /\ \A id \in ToggleTargets \cap PlayerIds(teams) :
       \E flagless \in {[k \in DOMAIN shareSelectionByPlayerId \ {id} |->
                           shareSelectionByPlayerId[k]]} :
         \E roster \in {shareTeams([State EXCEPT !.shareSelectionByPlayerId = flagless])} :
           /\ roster = Shareable(teams, flagless)
           /\ id \in PlayerIds(roster)

\* in the open sheet every player was excluded and then one of team B
\* included again: team A is gone from the shareable roster, and team B is
\* in it with that player only
C16_Witness ==
  /\ isShareOptionsOpen
  /\ Len(teams) = 2
  /\ Len(shareTeams(State)) = 1
  /\ shareTeams(State)[1].id = "B"
  /\ Len(shareTeams(State)[1].players) = 1
  /\ Len(teams[2].players) > 1

\* what the signature is said to depend on: the scoring mode, the id and
\* label of each shareable team, the id, name and stats of its players
SignatureInputsOf(s) ==
  CHOOSE inputs \in
    {<<s.gameScoringMode,
       [t \in 1..Len(roster) |->
          <<roster[t].id, roster[t].label,
            [i \in 1..Len(roster[t].players) |->
               <<roster[t].players[i].id, roster[t].players[i].name,
                 roster[t].players[i].stats>>]>>]>> :
       roster \in {Shareable(s.teams, s.shareSelectionByPlayerId)}} : TRUE

\* the state with one counter of a player raised by one
WithStat(s, t, i, statKey) == [s EXCEPT !.teams[t].players[i].stats[statKey] = @ + 1]

\* the state with a letter added to a player's name
WithName(s, t, i) == [s EXCEPT !.teams[t].players[i].name = @ \o <<"x">>]

\* the changes tried on a state: a counter (a made shot, a forced turnover)
\* or the name of the first player of a team, a team's label, the mode
Variations(s) ==
  {s, [s EXCEPT !.gameScoringMode =
                  IF @ = "twosAndThrees" THEN "onesAndTwos" ELSE "twosAndThrees"]}
    \cup {WithStat(s, t, 1, statKey) :
            t \in {u \in 1..Len(s.teams) : s.teams[u].players # <<>>},
            statKey \in {"lowPM", "tovf"}}
    \cup {WithName(s, t, 1) : t \in {u \in 1..Len(s.teams) : s.teams[u].players # <<>>}}
    \cup {[s EXCEPT !.teams[t].label = @ \o <<"\"">>] : t \in 1..Len(s.teams)}

IncludedFirst(s, t) ==
  /\ s.teams[t].players # <<>>
  /\ currentlySelected(s.shareSelectionByPlayerId, s.teams[t].players[1].id)

\* C17: the share signature is determined by, and determines, the scoring
\* mode, each shareable team's id and label and each included player's id,
\* name and stats: of a state and its variations, two have the same
\* signature text exactly when they agree on those; raising a counter or
\* changing the name of an included player, a shareable team's label, or the
\* mode changes the text, and a change to an excluded player does not.
C17_SignatureFunction ==
  \E variations \in {Variations(State)} :
  \E text \in {[v \in variations |-> SignatureText(currentShareSignature(v))]} :
  \E inputs \in {[v \in variations |-> SignatureInputsOf(v)]} :
    /\ \A a, b \in variations : (inputs[a] = inputs[b]) <=> (text[a] = text[b])
    /\ \A a, b \in variations :
         (text[a] = text[b]) <=> (currentShareSignature(a) = currentShareSignature(b))
    /\ \A t \in 1..Len(teams) :
         teams[t].players # <<>> =>
           /\ (text[WithStat(State, t, 1, "tovf")] = text[State]) <=> ~IncludedFirst(State, t)
           /\ (text[WithName(State, t, 1)] = text[State]) <=> ~IncludedFirst(State, t)

\* in the open sheet, with a logged action on the first player of team A:
\* that player is excluded, and the first player of team B is included
C17_Witness ==
  /\ isShareOptionsOpen
  /\ Len(teams) = 2
  /\ teams[1].players # <<>>
  /\ teams[2].players # <<>>
  /\ \E statKey \in StatKeySet : teams[1].players[1].stats[statKey] > 0
  /\ ~IncludedFirst(State, 1)
  /\ IncludedFirst(State, 2)

\* the prepared image was made of the shareable roster and scoring mode
\* of state s
PreparedIsCurrent(s) ==
  /\ s.preparedShareImage.present
  /\ s.preparedShareImage.signature =
       shareCaptureSignature(Shareable(s.teams, s.shareSelectionByPlayerId),
                             s.gameScoringMode)

\* C18: the sheet reports the image ready from the cache exactly when the
\* cached signature is the current share signature; a share attempt reuses
\* the cached image, without rendering, exactly when the cached signature
\* is the signature current when the attempt starts, and otherwise renders
\* anew; an attempt that reuses the image leaves the cache alone.
C18_NoStaleImage ==
  /\ [](isShareImageReady(State) <=> PreparedIsCurrent(State))
  /\ [][ShareFromShareOptions =>
          /\ shareAttempt'.active
          /\ shareAttempt'.signature = currentShareSignature(State)
          /\ shareAttempt'.usedPreparedImage <=> PreparedIsCurrent(State)
          /\ shareAttempt'.usedPreparedImage =>
               /\ shareAttempt'.stage = "reuse"
               /\ preparedShareImage' = preparedShareImage
          /\ ~shareAttempt'.usedPreparedImage => shareAttempt'.stage = "render"]_vars
  /\ [][ShareImageRendered => ~shareAttempt.usedPreparedImage]_vars
  /\ [][ShareImageReused =>
          shareAttempt.usedPreparedImage /\ preparedShareImage' = preparedShareImage]_vars

\* Share was pressed in the sheet while the prepared image was current: the
\* attempt hands the cached image over
C18_Witness ==
  /\ lastCall = "shareFromShareOptions"
  /\ shareAttempt.active
  /\ shareAttempt.usedPreparedImage
  /\ preparedShareImage.present
  /\ preparedShareImage.signature = shareAttempt.signature

\* a prepared image that is out of date: the roster changed after the
\* preparation that made it had started
C18_WitnessStale ==
  /\ preparedShareImage.present
  /\ ~PreparedIsCurrent(State)

\* C19: when a background preparation ends, its outcome is taken only if
\* its token is the current token: a job with an older token changes
\* neither the prepared image nor the prepare-error flag nor the preparing
\* flag; a job with the current token is the one started last, and its
\* image or its failure is recorded.
C19_LastWriterWins ==
  /\ [](\A job \in jobs : job.id <= sharePrepareJobId)
  /\ [][PrepareSucceeds \/ PrepareFails =>
          \A job \in jobs \ jobs' :
            /\ job.id # sharePrepareJobId =>
                 UNCHANGED <<preparedShareImage, hasSharePrepareError,
                             isPreparingShareImage>>
            /\ job.id = sharePrepareJobId =>
                 /\ \A other \in jobs : other.id <= job.id
                 /\ ~isPreparingShareImage'
                 /\ \/ preparedShareImage' = Image(job.signature) /\ ~hasSharePrepareError'
                    \/ preparedShareImage' = preparedShareImage /\ hasSharePrepareError']_vars

\* a preparation that was overtaken has ended and was ignored, while the
\* one started after it is still running
C19_Witness ==
  /\ lastCall = "prepareDiscarded"
  /\ \E job \in jobs : job.id = sharePrepareJobId
  /\ isPreparingShareImage
  /\ ~preparedShareImage.present
  /\ ~hasSharePrepareError

\* C20: every step that closes the share sheet raises the job token, and
\* a preparation that ends while the sheet is closed changes neither the
\* prepared image nor the prepare-error flag.
C20_CloseCancels ==
  /\ [][isShareOptionsOpen /\ ~isShareOptionsOpen' =>
          sharePrepareJobId' > sharePrepareJobId]_vars
  /\ [][(PrepareSucceeds \/ PrepareFails) /\ ~isShareOptionsOpen =>
          UNCHANGED <<preparedShareImage, hasSharePrepareError>>]_vars

\* the second half of C20 alone: a preparation that ends while the sheet is
\* closed changes neither the prepared image nor the prepare-error flag
C20_ClosedSheetDiscards ==
  [][(PrepareSucceeds \/ PrepareFails) /\ ~isShareOptionsOpen =>
       UNCHANGED <<preparedShareImage, hasSharePrepareError>>]_vars

\* C21: a share attempt that fails, in rendering or in the share call, ends
\* with isSharing false and a status message; no step of an attempt changes
\* the phase, the teams, the selected team and player, the share selection,
\* the history or the stored snapshot; isSharing is true exactly while an
\* attempt is under way.
C21_ShareFailureCaught ==
  /\ [](isSharing <=> shareAttempt.active)
  /\ [][ShareRenderFails \/ ShareRejected =>
          /\ ~isSharing'
          /\ ~shareAttempt'.active
          /\ shareStatus' \in {S_CouldNotShare, S_TapAgain}]_vars
  /\ [][ShareRenderFails => hasSharePrepareError']_vars
  /\ [][\/ ShareFromShareOptions
        \/ ShareImageRendered
        \/ ShareImageReused
        \/ ShareRenderFails
        \/ ShareDelivered
        \/ ShareRejected =>
          UNCHANGED <<phase, teams, selectedTeamId, selectedPlayerId,
                      shareSelectionByPlayerId, history, lastAction, stored>>]_vars

\* the share call of an attempt on a game with a logged action was rejected
C21_Witness ==
  /\ lastCall = "shareRejected"
  /\ shareStatus = S_CouldNotShare
  /\ ~isSharing
  /\ phase = "game"
  /\ history # <<>>

\* C22: when an attempt has its image, the native share call is made
\* exactly when the capability check accepts the payload, and without the
\* capability that image is downloaded; when the native share call fails,
\* the image is downloaded as well.
C22_ShareFallback ==
  /\ [](shareAttempt.active /\ shareAttempt.stage \in {"render", "reuse"} =>
          \A canShare \in BOOLEAN :
            \E after \in {IF shareAttempt.stage = "render"
                          THEN shareImageRendered(State, canShare)
                          ELSE shareImageReused(State, canShare)} :
              /\ canShare <=> after.shareAttempt.active /\ after.shareAttempt.stage = "share"
              /\ ~canShare => after.shareStatus = S_Downloaded /\ ~after.isSharing)
  /\ [][ShareRejected => shareStatus' = S_Downloaded]_vars

\* the first half of C22 alone: the capability check decides between the
\* native share call and the download
C22_CapabilityGate ==
  shareAttempt.active /\ shareAttempt.stage \in {"render", "reuse"} =>
    \A canShare \in BOOLEAN :
      \E after \in {IF shareAttempt.stage = "render"
                    THEN shareImageRendered(State, canShare)
                    ELSE shareImageReused(State, canShare)} :
        /\ canShare <=> after.shareAttempt.active /\ after.shareAttempt.stage = "share"
        /\ ~canShare => after.shareStatus = S_Downloaded /\ ~after.isSharing

\* the sum of a sequence of numbers
RECURSIVE SumOf(_)
SumOf(numbers) ==
  IF numbers = <<>> THEN 0
  ELSE numbers[Len(numbers)] + SumOf(SubSeq(numbers, 1, Len(numbers) - 1))

\* made low shots times 2 plus made high shots times 3 in twosAndThrees,
\* times 1 and times 2 in onesAndTwos
PointsOf(stats, mode) ==
  IF mode = "twosAndThrees" THEN stats["lowPM"] * 2 + stats["highPM"] * 3
  ELSE stats["lowPM"] * 1 + stats["highPM"] * 2

\* every counter of every player is 0
AllBlank(teamList) ==
  \A t \in 1..Len(teamList) : \A i \in 1..Len(teamList[t].players) :
    \A statKey \in StatKeySet : teamList[t].players[i].stats[statKey] = 0

\* five a side, twosAndThrees, A-1 has exactly one low shot made
AfterLowMake ==
  /\ Len(teams) = 2
  /\ Len(teams[1].players) = 5
  /\ Len(teams[2].players) = 5
  /\ gameScoringMode = "twosAndThrees"
  /\ Len(history) = 1
  /\ history[1].teamId = "A"
  /\ history[1].playerId = <<"A", "-", "1">>
  /\ history[1].delta = [statKey \in {"lowPA", "lowPM"} |-> 1]
  /\ teams[1].players[1].id = <<"A", "-", "1">>
  /\ AllBlank([teams EXCEPT ![1].players[1].stats["lowPA"] = 0,
                            ![1].players[1].stats["lowPM"] = 0])
  /\ teams[1].players[1].stats["lowPA"] = 1
  /\ teams[1].players[1].stats["lowPM"] = 1

C23_WitnessBothShots ==
  /\ gameScoringMode = "onesAndTwos"
  /\ \E t \in 1..Len(teams) :
       /\ teams[t].players[1].stats["lowPM"] = 1
       /\ teams[t].players[1].stats["highPM"] = 1
       /\ teamPoints(teams[t], gameScoringMode) = 3

\* the deltas at hand in a state: those of the action buttons, those of the
\* history entries, and the delta that names no counter
DeltasAtHand ==
  {scoringActions(gameScoringMode)[a].delta :
     a \in 1..Len(scoringActions(gameScoringMode))}
    \cup {history[h].delta : h \in 1..Len(history)}
    \cup {EmptyFn}

\* counter statKey of stats moved by delta in the given direction, stopped at 0
MovedCounter(stats, delta, direction, statKey) ==
  LET moved == IF statKey \in DOMAIN delta
               THEN stats[statKey] + direction * delta[statKey]
               ELSE stats[statKey]
  IN  IF moved < 0 THEN 0 ELSE moved

\* C24: applyDelta(stats, delta, direction) is, for every stat key,
\* max(0, stats[key] + direction * delta[key]) with a key the delta does not
\* name counted as 0: a counter that would go below 0 becomes exactly 0, and
\* the other counters of the line are kept.  The result is a new stat line
\* over the same ten keys (the argument is a value here, so it cannot be
\* modified).  Undo, which applies the last entry's delta with direction -1,
\* leaves the entry's player with exactly these counters.
C24_ApplyDelta ==
  /\ [](\A t \in 1..Len(teams) : \A i \in 1..Len(teams[t].players) :
          \A delta \in DeltasAtHand : \A direction \in {1, -1} :
            /\ DOMAIN applyDelta(teams[t].players[i].stats, delta, direction)
                 = DOMAIN teams[t].players[i].stats
            /\ \A statKey \in StatKeySet :
                 applyDelta(teams[t].players[i].stats, delta, direction)[statKey]
                   = MovedCounter(teams[t].players[i].stats, delta, direction, statKey))
  /\ [][UndoLastAction =>
          \A t \in 1..Len(teams) : \A i \in 1..Len(teams[t].players) :
            \A statKey \in StatKeySet :
              teams'[t].players[i].stats[statKey] =
                IF /\ teams[t].id = history[Len(history)].teamId
                   /\ teams[t].players[i].id = history[Len(history)].playerId
                THEN MovedCounter(teams[t].players[i].stats,
                                  history[Len(history)].delta, -1, statKey)
                ELSE teams[t].players[i].stats[statKey]]_vars

\* both loaded entries were undone: the one whose delta exceeded the counter
\* left 0, the one with the negative delta raised its counter
C24_Witness ==
  /\ lastAction = S_UndoPrefix \o S_neg
  /\ history = <<>>
  /\ teams[1].players[1].stats["tovf"] = 0
  /\ teams[1].players[1].stats["ast"] = 2
  /\ teams[1].players[1].stats["reb"] = 0

\* the deltas tried in sequence: those of the offered buttons, those of the
\* history entries, and the delta that names no counter
DeltaChoices ==
  {action.delta : action \in actionButtons}
    \cup {history[h].delta : h \in 1..Len(history)}
    \cup {EmptyFn}

DeltaSequences ==
  UNION {[1..n -> DeltaChoices] : n \in 0..MaxDeltas}

\* the stat line after the deltas were applied in order with direction +1
RECURSIVE Applied(_, _)
Applied(stats, deltas) ==
  IF deltas = <<>> THEN stats
  ELSE Applied(applyDelta(stats, Head(deltas), 1), Tail(deltas))

\* the stat line after the deltas were applied last-first with direction -1
RECURSIVE Reverted(_, _)
Reverted(stats, deltas) ==
  IF deltas = <<>> THEN stats
  ELSE Reverted(applyDelta(stats, deltas[Len(deltas)], -1),
                SubSeq(deltas, 1, Len(deltas) - 1))

\* no counter would have gone below 0 while the deltas were applied in order
RECURSIVE NeverClamped(_, _)
NeverClamped(stats, deltas) ==
  IF deltas = <<>> THEN TRUE
  ELSE /\ \A statKey \in DOMAIN Head(deltas) \cap StatKeySet :
            stats[statKey] + Head(deltas)[statKey] >= 0
       /\ NeverClamped(applyDelta(stats, Head(deltas), 1), Tail(deltas))

\* C25: applying a sequence of deltas with direction +1 and then their
\* inverses (direction -1) in reverse order gives back the stat line it
\* started from, provided no counter was clamped on the way.
C25_InverseRestores ==
  \A t \in 1..Len(teams) : \A i \in 1..Len(teams[t].players) :
    \A deltas \in DeltaSequences :
      NeverClamped(teams[t].players[i].stats, deltas) =>
        Reverted(Applied(teams[t].players[i].stats, deltas), deltas)
          = teams[t].players[i].stats

\* two different deltas were logged for one player, whose line takes both
\* again without clamping, while a loaded delta at hand would clamp it
C25_Witness ==
  /\ Len(history) = 2
  /\ history[1].delta # history[2].delta
  /\ \E t \in 1..Len(teams) : \E i \in 1..Len(teams[t].players) :
       /\ teams[t].players[i].id = history[1].playerId
       /\ teams[t].players[i].id = history[2].playerId
       /\ NeverClamped(teams[t].players[i].stats,
                       <<history[1].delta, history[2].delta>>)
       /\ Applied(teams[t].players[i].stats, <<history[1].delta, history[2].delta>>)
            # teams[t].players[i].stats

\* a delta at hand would be clamped on a line of the roster, and taking it
\* back does not restore that line
C25_WitnessClamped ==
  \E t \in 1..Len(teams) : \E i \in 1..Len(teams[t].players) :
    \E deltas \in DeltaSequences :
      /\ ~NeverClamped(teams[t].players[i].stats, deltas)
      /\ Reverted(Applied(teams[t].players[i].stats, deltas), deltas)
           # teams[t].players[i].stats

\* C26: in every state the prepared-image cache is empty or holds an image
\* whose signature is the current share signature, also after a background
\* preparation or a render started by a share attempt ends once the roster,
\* the scoring mode or the share selection has changed.
C26_CacheCurrent ==
  preparedShareImage.present => PreparedIsCurrent(State)

\* the share sheet is open and at least one player is included
SheetAwaitsImage == isShareOptionsOpen /\ selectedSharePlayers(State) > 0

\* C27: the share sheet does not block for ever: while it is open with at
\* least one included player and every render call ends, a state follows in
\* which nothing is being prepared and the share control is enabled (the
\* image of the current signature is ready, or the prepare-error flag is
\* set), unless the sheet is closed, the last player is excluded or a share
\* attempt is started first; the roster, the mode and the selection can
\* change only finitely often (MaxJobId, MaxHistory).
C27_NeverBlocked ==
  SheetAwaitsImage ~>
    \/ ~isPreparingShareImage /\ isSheetShareReady(State)
    \/ ~SheetAwaitsImage
    \/ isSharing

\* a share started from the error state, where no current image is cached,
\* is under way, has cleared the flag and renders anew
C27_RetryRenders ==
  [][ShareFromShareOptions /\ hasSharePrepareError /\ ~isShareImageReady(State) =>
       /\ isSharing'
       /\ shareAttempt'.active
       /\ shareAttempt'.stage = "render"
       /\ ~hasSharePrepareError']_vars

\* the open sheet with an included player where nothing is being prepared,
\* no image is ready, no error is recorded and no preparation is running:
\* the share control stays disabled
C27_WitnessBlocked ==
  /\ lastCall = "openShareOptions"
  /\ SheetAwaitsImage
  /\ ~isPreparingShareImage
  /\ ~isSharing
  /\ ~hasSharePrepareError
  /\ ~isShareImageReady(State)
  /\ jobs = {}

\* the preparation with the current token failed: the sheet is open, nothing
\* is being prepared, no image is ready and the share control is enabled
C27_Witness ==
  /\ lastCall = "prepareDone"
  /\ SheetAwaitsImage
  /\ hasSharePrepareError
  /\ ~isPreparingShareImage
  /\ ~isShareImageReady(State)
  /\ isSheetShareReady(State)

\* a share attempt started from the error state is rendering
C27_WitnessRetry ==
  /\ lastCall = "shareFromShareOptions"
  /\ shareAttempt.active
  /\ shareAttempt.stage = "render"
  /\ ~preparedShareImage.present

\* C28: the prepare-error flag, once set by a failed preparation with the
\* current token, is cleared only by a preparation that succeeds or by a
\* change of the roster, the scoring mode or the share selection.
C28_FlagSticky ==
  [][hasSharePrepareError /\ ~hasSharePrepareError' =>
       \/ PrepareSucceeds
       \/ teams' # teams
       \/ gameScoringMode' # gameScoringMode
       \/ shareSelectionByPlayerId' # shareSelectionByPlayerId]_vars

\* a failed preparation with the current token sets the flag and ends the
\* preparing state
C28_FailureSetsFlag ==
  [][PrepareFails /\ (\E job \in jobs \ jobs' : job.id = sharePrepareJobId) =>
       hasSharePrepareError' /\ ~isPreparingShareImage']_vars

\* while the flag is set, nothing is preparing or sharing and a player is
\* included, the share control is enabled, as it is with a ready image
C28_ErrorIsReadyEnough ==
  /\ (hasSharePrepareError /\ ~isPreparingShareImage /\ ~isSharing
        /\ selectedSharePlayers(State) > 0) => isSheetShareReady(State)
  /\ (isShareImageReady(State) /\ ~isPreparingShareImage /\ ~isSharing
        /\ selectedSharePlayers(State) > 0) => isSheetShareReady(State)

\* selections to synchronise with the roster: the current one, the empty
\* one, the current one with flags inverted, with one key missing, with a
\* key of no player, and with both
SelectionChoices ==
  {shareSelectionByPlayerId, EmptyFn,
   [id \in DOMAIN shareSelectionByPlayerId |-> ~shareSelectionByPlayerId[id]],
   [id \in DOMAIN shareSelectionByPlayerId \cup {<<"z">>} |->
      IF id \in DOMAIN shareSelectionByPlayerId THEN shareSelectionByPlayerId[id]
      ELSE FALSE]}
    \cup {[id \in DOMAIN shareSelectionByPlayerId \ {gone} |-> shareSelectionByPlayerId[id]] :
            gone \in DOMAIN shareSelectionByPlayerId}
    \cup {[id \in (DOMAIN shareSelectionByPlayerId \ {gone}) \cup {<<"z">>} |->
             IF id \in DOMAIN shareSelectionByPlayerId THEN ~shareSelectionByPlayerId[id]
             ELSE TRUE] :
            gone \in DOMAIN shareSelectionByPlayerId}

\* C29: syncShareSelection(sel, teams) returns a selection whose keys are
\* exactly the ids of the roster's players: a player with a flag in sel
\* keeps it, a player without one is included, keys of no player are
\* dropped; when sel's keys are the roster's ids already, sel itself is
\* returned, whatever its flags.  The selection of every state is
\* synchronised with the roster, and a handler that sets the roster and not
\* the selection keeps the flags of the players that stay.
C29_SyncSelection ==
  /\ [](\A sel \in SelectionChoices :
          /\ DOMAIN syncShareSelection(sel, teams).selection = PlayerIds(teams)
          /\ \A id \in PlayerIds(teams) :
               syncShareSelection(sel, teams).selection[id]
                 = (IF id \in DOMAIN sel THEN sel[id] ELSE TRUE)
          /\ DOMAIN sel = PlayerIds(teams) =>
               /\ ~syncShareSelection(sel, teams).changed
               /\ syncShareSelection(sel, teams).selection = sel)
  /\ [](DOMAIN shareSelectionByPlayerId = PlayerIds(teams))
  /\ [][LogAction \/ BackToSetup \/ BeginEditNames \/ CancelEditNames =>
          \A id \in PlayerIds(teams') :
            shareSelectionByPlayerId'[id]
              = (IF id \in DOMAIN shareSelectionByPlayerId
                 THEN shareSelectionByPlayerId[id] ELSE TRUE)]_vars

\* an action was logged while one player was excluded from the image: the
\* roster is a new object, the selection still excludes that player only
C29_Witness ==
  /\ lastCall = "logAction"
  /\ \E gone \in PlayerIds(teams) :
       /\ ~shareSelectionByPlayerId[gone]
       /\ \A id \in PlayerIds(teams) \ {gone} : shareSelectionByPlayerId[id]

\* the team and the player recorded in the document the page opened over
RecordedTeam == Get(ParsedValue(opened), "selectedTeamId")
RecordedPlayer == Get(ParsedValue(opened), "selectedPlayerId")

\* the players of the first team of the roster whose id is teamId
PlayersOfTeam(teamId) ==
  IF \E t \in 1..Len(teams) : teams[t].id = teamId
  THEN teams[CHOOSE t \in 1..Len(teams) :
               teams[t].id = teamId /\ \A u \in 1..(t - 1) : teams[u].id # teamId].players
  ELSE <<>>

\* C30: on a page that has just loaded, the selected team is the recorded
\* one if it is a team of the loaded (normalized) roster, else the first
\* team of that roster, or A when there is none; the selected player is the
\* recorded one if the selected team has that player, else that team's
\* first player, else empty.  So the selected player is empty or a player
\* of the selected team.
C30_SelectionResolved ==
  lastCall = "init" =>
    /\ selectedTeamId =
         IF /\ RecordedTeam.t = "str"
            /\ \E t \in 1..Len(teams) : <<teams[t].id>> = RecordedTeam.s
         THEN RecordedTeam.s[1]
         ELSE IF teams # <<>> THEN teams[1].id ELSE "A"
    /\ selectedPlayerId =
         IF /\ RecordedPlayer.t = "str"
            /\ \E i \in 1..Len(PlayersOfTeam(selectedTeamId)) :
                 PlayersOfTeam(selectedTeamId)[i].id = RecordedPlayer.s
         THEN RecordedPlayer.s
         ELSE IF PlayersOfTeam(selectedTeamId) # <<>>
              THEN PlayersOfTeam(selectedTeamId)[1].id
              ELSE EmptyStr
    /\ \/ selectedPlayerId = EmptyStr
       \/ \E i \in 1..Len(PlayersOfTeam(selectedTeamId)) :
            PlayersOfTeam(selectedTeamId)[i].id = selectedPlayerId

\* the page has just opened over a game that recorded team B with a player
\* of team A: team B and its first player are selected
C30_Witness ==
  /\ lastCall = "init"
  /\ opened = DocStaleSelection
  /\ selectedTeamId = "B"
  /\ selectedPlayerId = PlayerIdOf("B", 1)

\* the page has just opened over a game that recorded team A, which the
\* roster lacks, with B-2: the first team, B, and B-2 are selected
C30_WitnessOtherTeam ==
  /\ lastCall = "init"
  /\ opened = DocSelectionOtherTeam
  /\ selectedTeamId = "B"
  /\ selectedPlayerId = PlayerIdOf("B", 2)

\* the elements of the teams array of the document the page opened over
RecordedTeams ==
  IF Get(ParsedValue(opened), "teams").t = "arr"
  THEN Get(ParsedValue(opened), "teams").a ELSE <<>>

\* C31: on a page that has just loaded, an element of the stored teams array
\* that is no object (a number, a text, null) is no team of the roster: the
\* roster has at most as many teams as the array has objects, and is empty
\* when the array has none.
C31_MalformedTeamsDropped ==
  lastCall = "init" =>
    Len(teams) <= Cardinality({i \in 1..Len(RecordedTeams) :
                                 RecordedTeams[i].t \in {"obj", "arr"}})

\* the page has just opened over {"phase":"editNames","teams":[7,null]}: the
\* roster has teams A and B, without players, and the phase is kept
C31_WitnessTeamsOfNothing ==
  /\ lastCall = "init"
  /\ opened = DocNonObjectTeams
  /\ Len(teams) = 2
  /\ teams[1].id = "A" /\ teams[1].players = <<>>
  /\ teams[2].id = "B" /\ teams[2].players = <<>>
  /\ phase = "editNames"

\* the id under which element i of the stored teams array is normalized:
\* its own id when that is A or B, else A unless an earlier element already
\* took A, else B
RECURSIVE RecordedTeamId(_)
RecordedTeamId(i) ==
  IF Get(RecordedTeams[i], "id").t = "str"
       /\ Get(RecordedTeams[i], "id").s \in {<<"A">>, <<"B">>}
  THEN Get(RecordedTeams[i], "id").s[1]
  ELSE IF \E j \in 1..(i - 1) : RecordedTeamId(j) = "A" THEN "B" ELSE "A"

\* the first element of the stored teams array normalized under teamId
FirstRecorded(teamId) ==
  CHOOSE i \in 1..Len(RecordedTeams) :
    /\ RecordedTeamId(i) = teamId
    /\ \A j \in 1..(i - 1) : RecordedTeamId(j) # teamId

\* C32: on a page that has just loaded, the roster has at most two teams,
\* with distinct ids, A before B whatever the stored order; a team with id
\* A (B) is in the roster exactly when some stored element is normalized
\* under A (B), where an element without a valid id takes A when A is not
\* yet taken and else B; and the team is made of the first such element in
\* stored order (its label, or "Team" and the id when it has none, and one
\* player per stored player).
C32_TeamsDeduplicated ==
  lastCall = "init" =>
    /\ Len(teams) <= 2
    /\ \A t, u \in 1..Len(teams) : t < u => teams[t].id = "A" /\ teams[u].id = "B"
    /\ \A teamId \in {"A", "B"} :
         /\ (\E t \in 1..Len(teams) : teams[t].id = teamId)
              <=> (\E i \in 1..Len(RecordedTeams) : RecordedTeamId(i) = teamId)
         /\ \A t \in 1..Len(teams) :
              teams[t].id = teamId =>
                /\ teams[t].label =
                     IF Get(RecordedTeams[FirstRecorded(teamId)], "label").t = "str"
                     THEN Get(RecordedTeams[FirstRecorded(teamId)], "label").s
                     ELSE <<"T", "e", "a", "m", " ", teamId>>
                /\ Len(teams[t].players) =
                     IF Get(RecordedTeams[FirstRecorded(teamId)], "players").t = "arr"
                     THEN Len(Get(RecordedTeams[FirstRecorded(teamId)], "players").a)
                     ELSE 0

\* the page has just opened over the teams B, B, no id, A, no id: the roster
\* is the third element as team A and the first as team B
C32_Witness ==
  /\ lastCall = "init"
  /\ opened = DocShuffledTeams
  /\ Len(teams) = 2
  /\ teams[1].id = "A" /\ teams[1].label = <<"n", "1">>
  /\ teams[2].id = "B" /\ teams[2].label = <<"b", "1">>
  /\ Len(teams[2].players) = 1

\* the elements of the history array of the document the page opened over
RecordedHistory ==
  IF Get(ParsedValue(opened), "history").t = "arr"
  THEN Get(ParsedValue(opened), "history").a ELSE <<>>

\* the positions of the stored entries that are objects of team A or B
KeptEntries ==
  {i \in 1..Len(RecordedHistory) :
     /\ RecordedHistory[i].t \in {"obj", "arr"}
     /\ Get(RecordedHistory[i], "teamId").t = "str"
     /\ Get(RecordedHistory[i], "teamId").s \in {<<"A">>, <<"B">>}}

\* the position in the stored array of the n-th kept entry
KeptAt(n) ==
  CHOOSE i \in KeptEntries : Cardinality({j \in KeptEntries : j < i}) = n - 1

\* C33: on a page that has just loaded, the history is, in stored order, the
\* stored entries that are objects with teamId A or B and no other; the
\* delta of each holds exactly the known stat keys whose stored value is a
\* finite number, with that value, and nothing of an unknown key; a stored
\* history that is no array gives the empty history.
C33_HistoryNormalized ==
  lastCall = "init" =>
    /\ Len(history) = Cardinality(KeptEntries)
    /\ Get(ParsedValue(opened), "history").t # "arr" => history = <<>>
    /\ \A n \in 1..Len(history) :
         /\ <<history[n].teamId>> = Get(RecordedHistory[KeptAt(n)], "teamId").s
         /\ DOMAIN history[n].delta =
              {statKey \in {"lowPA", "lowPM", "highPA", "highPM", "ast", "stl",
                            "blk", "reb", "tov", "tovf"} :
                 Get(Get(RecordedHistory[KeptAt(n)], "delta"), statKey).t = "num"}
         /\ \A statKey \in DOMAIN history[n].delta :
              history[n].delta[statKey]
                = Get(Get(RecordedHistory[KeptAt(n)], "delta"), statKey).n

\* the page has just opened over the history of five elements: the entry of
\* team B with the one finite counter and the entry of team A with an empty
\* delta are the history
C33_Witness ==
  /\ lastCall = "init"
  /\ opened = DocMixedHistory
  /\ Len(history) = 2
  /\ history[1].teamId = "B" /\ history[1].delta = [ast |-> 1]
  /\ history[1].playerId = EmptyStr
  /\ history[2].teamId = "A" /\ DOMAIN history[2].delta = {}
  /\ phase = "game"

\* the page has just opened over a history that is an object
C33_WitnessNotList ==
  /\ lastCall = "init"
  /\ opened = DocHistoryNotList
  /\ history = <<>>
  /\ teams # <<>>

\* C34: beginEditNames with a non-empty roster moves the phase to
\* editNames, sets the player count to 4 when the first team has exactly
\* four players and to 5 otherwise, and puts into the setup, for each team
\* of the roster, its label and its players' names followed by blanks up to
\* five names; the setup of a team the roster lacks, the teams, the history
\* and the selected team and player are unchanged.
C34_BeginEditNames ==
  [][BeginEditNames /\ teams # <<>> =>
       /\ phase' = "editNames"
       /\ playerCount' = (IF Len(teams[1].players) = 4 THEN 4 ELSE 5)
       /\ \A t \in 1..Len(teams) :
            /\ setup'[teams[t].id].label = teams[t].label
            /\ Len(setup'[teams[t].id].names) = 5
            /\ \A i \in 1..5 :
                 setup'[teams[t].id].names[i] =
                   IF i <= Len(teams[t].players) THEN teams[t].players[i].name
                   ELSE <<>>
       /\ \A teamId \in {"A", "B"} :
            (\A t \in 1..Len(teams) : teams[t].id # teamId) =>
              setup'[teamId] = setup[teamId]
       /\ UNCHANGED <<teams, history, selectedTeamId, selectedPlayerId>>]_vars

\* the names of a roster of four a side are staged: the fifth name of each
\* team is blank and the player count is 4
C34_Witness ==
  /\ phase = "editNames"
  /\ playerCount = 4
  /\ Len(teams) = 2
  /\ Len(teams[1].players) = 4
  /\ \A t \in 1..2 :
       /\ setup[teams[t].id].label = teams[t].label
       /\ setup[teams[t].id].names[4] = teams[t].players[4].name
       /\ setup[teams[t].id].names[5] = <<>>

\* the names of a roster of team B alone, with one player, are staged
C34_WitnessOneTeam ==
  /\ phase = "editNames"
  /\ playerCount = 5
  /\ Len(teams) = 1
  /\ teams[1].id = "B"
  /\ Len(teams[1].players) = 1
  /\ setup["B"].names = <<teams[1].players[1].name, <<>>, <<>>, <<>>, <<>>>>

\* the sum of the deltas of statKey over the entries recorded for the
\* player playerId of team teamId
RECURSIVE Replayed(_, _, _, _)
Replayed(entries, teamId, playerId, statKey) ==
  IF entries = <<>> THEN 0
  ELSE Replayed(Tail(entries), teamId, playerId, statKey)
         + (IF /\ Head(entries).teamId = teamId
               /\ Head(entries).playerId = playerId
               /\ statKey \in DOMAIN Head(entries).delta
            THEN Head(entries).delta[statKey] ELSE 0)

\* C35: after Start Game, while the phase is game or editNames, every
\* counter of every player is the sum of that stat key's deltas over the
\* history entries recorded for that player.
C35_ReplayOfHistory ==
  phase \in {"game", "editNames"} =>
    \A t \in 1..Len(teams) : \A i \in 1..Len(teams[t].players) :
      \A statKey \in StatKeySet :
        teams[t].players[i].stats[statKey]
          = Replayed(history, teams[t].id, teams[t].players[i].id, statKey)

\* names are being edited in a game with two entries of different players:
\* one has a shot made, the other a forced turnover
C35_Witness ==
  /\ phase = "editNames"
  /\ Len(history) = 2
  /\ history[1].playerId # history[2].playerId
  /\ history[1].delta # history[2].delta
  /\ \E t \in 1..Len(teams) : \E i \in 1..Len(teams[t].players) :
       teams[t].players[i].stats["lowPM"] = 1

\* C36: after Start Game, whatever shots are logged and undone, no player
\* has more shots made than attempted, of either value: a logged make adds
\* 1 to the attempts and to the made shots of its value, a logged miss adds
\* 1 to the attempts only, and undo takes back the entry logged last.
C36_MadeWithinAttempts ==
  /\ [](\A t \in 1..Len(teams) : \A i \in 1..Len(teams[t].players) :
          /\ teams[t].players[i].stats["lowPM"] <= teams[t].players[i].stats["lowPA"]
          /\ teams[t].players[i].stats["highPM"] <= teams[t].players[i].stats["highPA"])
  /\ [][LogShot =>
          /\ history' = Append(history, history'[Len(history')])
          /\ history'[Len(history')].delta \in
               {[statKey \in {"lowPA", "lowPM"} |-> 1], [statKey \in {"lowPA"} |-> 1],
                [statKey \in {"highPA", "highPM"} |-> 1], [statKey \in {"highPA"} |-> 1]}]_vars
  /\ [][UndoLastAction /\ history # <<>> =>
          history' = SubSeq(history, 1, Len(history) - 1)]_vars

\* a miss and then a make of one player were logged and the make was undone:
\* one attempt, nothing made
C36_Witness ==
  /\ lastCall = "undoLastAction"
  /\ Len(history) = 1
  /\ \E t \in 1..Len(teams) : \E i \in 1..Len(teams[t].players) :
       \/ /\ teams[t].players[i].stats["lowPA"] = 1
          /\ teams[t].players[i].stats["lowPM"] = 0
       \/ /\ teams[t].players[i].stats["highPA"] = 1
          /\ teams[t].players[i].stats["highPM"] = 0

\* C37: in every state the ids of the players of the roster are pairwise
\* distinct, over all teams, whatever document the page opened over.
C37_DistinctPlayerIds ==
  \A t, u \in 1..Len(teams) :
    \A i \in 1..Len(teams[t].players) : \A j \in 1..Len(teams[u].players) :
      teams[t].players[i].id = teams[u].players[j].id => t = u /\ i = j

\* one action was logged on the page opened over the two players that both
\* carry the id A-2: both stat lines have changed
C37_WitnessBothCounted ==
  /\ lastCall = "logAction"
  /\ opened = DocTwinPlayers
  /\ Len(history) = 1
  /\ teams[1].players[1].id = teams[1].players[2].id
  /\ teams[1].players[1].stats # blankStatLine
  /\ teams[1].players[2].stats # blankStatLine

\* C38: an undo that follows beginEditNames and saveEditedNames (the last
\* action shown is "Names updated.", so the entry undone was logged before
\* the names were saved) takes that entry's delta from the player with the
\* entry's team and player id and from no other, gives the stat lines the
\* values they had before the entry was logged, removes the entry, and
\* leaves ids, labels and names as saved.
C38_UndoAfterRename ==
  [][UndoLastAction /\ history # <<>> /\ lastAction = S_NamesUpdated =>
       /\ SameRosterShape(teams, teams')
       /\ SameNames(teams, teams')
       /\ undoStack # <<>>
       /\ StatsOf(teams') = undoStack[Len(undoStack)].stats
       /\ \A t \in 1..Len(teams) : \A i \in 1..Len(teams[t].players) :
            \A statKey \in StatKeySet :
              teams'[t].players[i].stats[statKey] =
                IF /\ teams[t].id = history[Len(history)].teamId
                   /\ teams[t].players[i].id = history[Len(history)].playerId
                THEN teams[t].players[i].stats[statKey]
                       - DeltaAt(history[Len(history)].delta, statKey)
                ELSE teams[t].players[i].stats[statKey]
       /\ history' = SubSeq(history, 1, Len(history) - 1)]_vars

\* an entry logged for the first player of team B under the name P1 was
\* undone after that player had been renamed X: the stat line is blank again
\* and the name is X
C38_Witness ==
  /\ phase = "game"
  /\ StartsWith(lastAction,
                S_UndoPrefix \o <<"T", "e", "a", "m", " ", "B">> \o S_Sep
                  \o <<"P", "1">> \o S_Sep)
  /\ teams[2].players[1].name = <<"X">>
  /\ teams[2].players[1].stats = blankStatLine
  /\ history = <<>>

\* C39: after Start Game, with player pills of the current roster as the
\* only targets selected, whenever the phase is game the selected team is a
\* team of the roster and the selected player is one of its players; so an
\* action button always adds an entry to the history.
C39_TargetValid ==
  /\ [](phase = "game" =>
          \E t \in 1..Len(teams) :
            /\ teams[t].id = selectedTeamId
            /\ \E i \in 1..Len(teams[t].players) :
                 teams[t].players[i].id = selectedPlayerId)
  /\ [][LogAction => Len(history') = Len(history) + 1]_vars

\* the first player of team B was selected and an action was logged for
\* that player
C39_Witness ==
  /\ phase = "game"
  /\ selectedTeamId = "B"
  /\ selectedPlayerId = PlayerIdOf("B", 1)
  /\ history # <<>>
  /\ history[Len(history)].teamId = "B"
  /\ history[Len(history)].playerId = PlayerIdOf("B", 1)

\* C40: at most one share attempt is under way: shareBoxScore called while
\* isSharing is true changes nothing, and so does shareFromShareOptions; the
\* share control of the sheet is disabled while isSharing or
\* isPreparingShareImage is true; and isSharing is true exactly while an
\* attempt is under way, from its start until it ends with the image
\* shared, downloaded or the failure reported.
C40_OneShareAttempt ==
  /\ [][(DirectShareBoxScore \/ DirectShareFromShareOptions) /\ isSharing =>
          State' = State]_vars
  /\ [](isSharing \/ isPreparingShareImage => ~isSheetShareReady(State))
  /\ [](isSharing <=> shareAttempt.active)
  /\ [][isSharing' /\ ~isSharing =>
          /\ DirectShareBoxScore \/ DirectShareFromShareOptions
          /\ shareAttempt'.stage \in {"reuse", "render"}]_vars
  /\ [][isSharing /\ ~isSharing' =>
          /\ \/ ShareImageRendered \/ ShareImageReused \/ ShareRenderFails
             \/ ShareDelivered \/ ShareRejected
          /\ shareStatus' \in {S_Shared, S_Downloaded, S_TapAgain, S_CouldNotShare}]_vars

\* shareBoxScore was called while the image of an attempt was with the
\* system share dialog: the attempt is as it was
C40_Witness ==
  /\ lastCall = "shareBoxScore"
  /\ isSharing
  /\ shareAttempt.active
  /\ shareAttempt.stage = "share"

====
